---- MODULE Spec2Model ----
(***************************************************************************)
(* Verification model of the drift paper-trading bot: the paper broker and *)
(* its ledger, the risk manager, the adaptive EMA strategy.                *)
(*                                                                         *)
(* JavaScript numbers are modelled as exact decimal fractions: a number is *)
(* [p |-> <<p1, p2, ...>>, d |-> d] and stands for                         *)
(*        (p1 + p2/1e4 + p3/1e8 + ...) / d ,    d > 0.                     *)
(* The 1e4 digit base is the basis-point divisor of the code, so slippage  *)
(* (1 bps of a price) and fees (2 bps of a notional) are exact.            *)
(***************************************************************************)
EXTENDS Integers, Sequences, FiniteSets, TLC

\* ------------------------------------------------------------ numbers

\* the 1e4 of `bps / 1e4` and `* 1e4`
BpsBase == 10000

IAbs(n) == IF n < 0 THEN -n ELSE n
ISign(n) == IF n > 0 THEN 1 ELSE IF n < 0 THEN -1 ELSE 0
IMax(a, b) == IF a >= b THEN a ELSE b
IMin(a, b) == IF a <= b THEN a ELSE b

RECURSIVE GCD(_, _)
GCD(a, b) == IF b = 0 THEN a ELSE GCD(b, a % b)

LCM(a, b) == (a \div GCD(a, b)) * b

RECURSIVE PGcd(_)
PGcd(p) == IF Len(p) = 0 THEN 0 ELSE GCD(IAbs(Head(p)), PGcd(Tail(p)))

RECURSIVE Trim(_)
Trim(p) ==
  IF Len(p) > 1 /\ p[Len(p)] = 0 THEN Trim(SubSeq(p, 1, Len(p) - 1)) ELSE p

PDigit(p, i) == IF i >= 1 /\ i <= Len(p) THEN p[i] ELSE 0
PScale(k, p) == [i \in 1..Len(p) |-> k * p[i]]
PAdd(p, q) == [i \in 1..IMax(Len(p), Len(q)) |-> PDigit(p, i) + PDigit(q, i)]

RECURSIVE PConv(_, _, _, _)
PConv(p, q, k, i) ==
  IF i > k THEN 0 ELSE PDigit(p, i) * PDigit(q, k + 1 - i) + PConv(p, q, k, i + 1)

PMul(p, q) == [k \in 1..(Len(p) + Len(q) - 1) |-> PConv(p, q, k, 1)]

Norm(p, d) ==
  LET g == GCD(PGcd(p), d)
  IN  [p |-> Trim([i \in 1..Len(p) |-> p[i] \div g]), d |-> d \div g]

NInt(n) == [p |-> <<n>>, d |-> 1]
NRat(n, m) == Norm(<<n>>, m)
NZero == NInt(0)

NNeg(x) == [p |-> PScale(-1, x.p), d |-> x.d]
NAdd(x, y) ==
  LET l == LCM(x.d, y.d)
  IN  Norm(PAdd(PScale(l \div x.d, x.p), PScale(l \div y.d, y.p)), l)
NSub(x, y) == NAdd(x, NNeg(y))
NMul(x, y) == Norm(PMul(x.p, y.p), x.d * y.d)
\* x / y for a divisor y without fractional digits
NDiv(x, y) == Norm(PScale(ISign(y.p[1]) * y.d, x.p), x.d * IAbs(y.p[1]))
\* x / 1e4
NPerBase(x) == Norm(<<0>> \o x.p, x.d)
\* x * 1e4
NTimesBase(x) ==
  IF Len(x.p) = 1 THEN Norm(<<x.p[1] * BpsBase>>, x.d)
  ELSE Norm(<<x.p[1] * BpsBase + x.p[2]>> \o SubSeq(x.p, 3, Len(x.p)), x.d)

\* sign of p1 + p2/1e4 + ...: the digits are carried into [0, 1e4) from the
\* last one up, and the leading digit then decides
RECURSIVE PSign(_, _, _, _)
PSign(p, i, carry, nz) ==
  LET t == p[i] + carry
  IN  IF i = 1
      THEN IF t > 0 THEN 1 ELSE IF t < 0 THEN -1 ELSE IF nz THEN 1 ELSE 0
      ELSE PSign(p, i - 1, t \div BpsBase, nz \/ (t % BpsBase) # 0)

NSign(x) == PSign(x.p, Len(x.p), 0, FALSE)
NEq(x, y) == NSign(NSub(x, y)) = 0
NLt(x, y) == NSign(NSub(x, y)) < 0
NLe(x, y) == NSign(NSub(x, y)) <= 0
NGt(x, y) == NLt(y, x)
NGe(x, y) == NLe(y, x)
NAbs(x) == IF NSign(x) < 0 THEN NNeg(x) ELSE x
NMin(x, y) == IF NLe(x, y) THEN x ELSE y
NMax(x, y) == IF NGe(x, y) THEN x ELSE y

\* ------------------------------------------------------------ configuration

Symbols == {"SOL-PERP", "BTC-PERP"}
Sides == {"buy", "sell"}

\* INITIAL_DEPOSIT
InitialDeposit == 10000

\* bounds of the explored inputs
MaxQty == 3
MaxFills == 2
\* the clock's first reading, in ms
StartNow == 600000
Marks == {100, 110}
Qtys == 1..MaxQty

\* ------------------------------------------------------------ store

\* a number that is null / undefined
Null == [p |-> <<>>, d |-> 0]
IsNull(v) == v.d = 0

VARIABLES
  state,            \* the store's in-memory state: meta, deposit, cash, markets
  now,              \* Date.now()
  R,                \* cfg.RISK
  tradeTimestamps,  \* the risk manager's throttle window
  lastLossTs,       \* the risk manager's time of the last losing fill
  lastEval,         \* the last risk.evaluate call: its arguments and its result
  STRAT_EMA,        \* cfg.STRAT_EMA
  strat,            \* the strategy instance that runs without interruption
  resumed,          \* the strategy instance a restart builds from the stored snapshot
  lastSignal,       \* the last onPrice call: its mark and the actions returned
  lastFill,         \* the last broker.paperFill call: its arguments and its outcome
  bot,              \* runBot: the tick's position, its timer, the shutdown sequence
  strategiesBySymbol, \* runBot: the strategy instance of each market
  disk,             \* cfg.STATE_FILE: whether it exists, and its text
  store             \* createStore: whether the process runs, its last load and write

vars == <<state, now, R, tradeTimestamps, lastLossTs, lastEval,
          STRAT_EMA, strat, resumed, lastSignal, lastFill, bot, strategiesBySymbol,
          disk, store>>
riskVars == <<R, tradeTimestamps, lastLossTs, lastEval>>
stratVars == <<STRAT_EMA, strat, resumed, lastSignal>>
fileVars == <<disk, store>>
botVars == <<bot, strategiesBySymbol, fileVars>>

\* the book's strategy snapshot before any was stored: {}
EmptySnapshot ==
  [fast |-> Null, slow |-> Null, prevSlow |-> Null, lastState |-> "",
   entryTs |-> 0, lastExitTs |-> 0, lastMark |-> Null, volEwmaBps |-> Null,
   ticks |-> 0, warmTicks |-> 0]

DefaultBook ==
  [position |-> NZero, entryPrice |-> NZero, realizedPnL |-> NZero,
   feesPaid |-> NZero, trades |-> <<>>, lastMark |-> Null,
   strategy |-> EmptySnapshot]

FreshState ==
  [meta |-> [dayStartDate |-> 0, dayStartEquity |-> Null],
   deposit |-> NInt(InitialDeposit),
   cash |-> NInt(InitialDeposit),
   markets |-> <<>>]

HasMarket(st, symbol) == symbol \in DOMAIN st.markets

\* variant: the book is created whether or not the symbol has one
ensureMarketAnew(st, symbol) ==
  [st EXCEPT !.markets = [s \in DOMAIN st.markets \cup {symbol} |->
                            IF s = symbol THEN DefaultBook ELSE st.markets[s]]]

ensureMarket(st, symbol) ==
  IF HasMarket(st, symbol) THEN st
  ELSE [st EXCEPT !.markets = (symbol :> DefaultBook) @@ @]

getStrategyState(st, symbol) == ensureMarket(st, symbol).markets[symbol].strategy

setStrategyState(st, symbol, snap) ==
  [ensureMarket(st, symbol) EXCEPT !.markets[symbol].strategy = snap]

\* ------------------------------------------------------------ paper broker

feeBps == 2
slippageBps == 1

\* variant: slippage in the trader's favour
slipWithTrader(price, side) ==
  LET s == NMul(NPerBase(NInt(slippageBps)), price)
  IN  IF side = "buy" THEN NSub(price, s) ELSE NAdd(price, s)

\* the fill price: the mark moved against the trader
slip(price, side) ==
  LET s == NMul(NPerBase(NInt(slippageBps)), price)
  IN  IF side = "buy" THEN NAdd(price, s) ELSE NSub(price, s)

\* the fee charged on a notional
feeOf(notional) == NMul(NPerBase(NInt(feeBps)), NAbs(notional))

\* unrealized PnL of a book at a mark
markToMarketPx(mkt, markPrice) ==
  IF NSign(mkt.position) = 0 THEN NZero
  ELSE NMul(NMul(NSub(markPrice, mkt.entryPrice), NInt(NSign(mkt.position))),
            NAbs(mkt.position))

\* the branch paperFill takes: TRUE for "increase / same side"
sameSide(prevPos, newPos) ==
  NSign(prevPos) = 0 \/ NSign(prevPos) = NSign(newPos)

\* variant: the whole fill counts as closing quantity
closingQtyWhole(prevPos, qty) == qty

closingQty(prevPos, qty) == NMin(NAbs(prevPos), qty)

\* PnL realized by a fill of qty at px against a book
realizedOf(mkt, px, qty, newPos) ==
  IF sameSide(mkt.position, newPos) THEN NZero
  ELSE NMul(NMul(NSub(px, mkt.entryPrice), NInt(NSign(mkt.position))),
            closingQty(mkt.position, qty))

\* variant: a close to flat keeps the entry price
entryAfterKept(mkt, px, qty, newPos) ==
  IF NSign(newPos) # 0 /\ NSign(newPos) # NSign(mkt.position) THEN px
  ELSE mkt.entryPrice

\* the book's entry price after a fill of qty at px
entryAfter(mkt, px, qty, newPos) ==
  IF sameSide(mkt.position, newPos)
  THEN LET totalCost == NAdd(NMul(mkt.entryPrice, NAbs(mkt.position)), NMul(px, qty))
           newQtyAbs == NAbs(newPos)
       IN  IF NSign(newQtyAbs) > 0 THEN NDiv(totalCost, newQtyAbs) ELSE NZero
  ELSE IF NSign(NAbs(newPos)) > 0 /\ NSign(newPos) # NSign(mkt.position) THEN px
  ELSE IF NSign(newPos) = 0 THEN NZero
  ELSE mkt.entryPrice

\* a variant that lets a zero quantity through
noQtyNegative(qty) == NSign(qty) < 0

\* the quantities paperFill refuses: if (qty <= 0) return
noQty(qty) == NSign(qty) <= 0

\* paperFill(symbol, side, qty, markPrice) on the store's state st at time t:
\* the state after it, whether a trade was recorded, whether recordTrade wrote
\* the state file, and the PnL it realized
paperFill(st, symbol, side, qty, markPrice, t) ==
  IF noQty(qty)
  THEN [state |-> st, filled |-> FALSE, saved |-> FALSE, realized |-> NZero]
  ELSE
    LET s0 == ensureMarket(st, symbol)
        mkt == s0.markets[symbol]
        px == slip(markPrice, side)
        notional == NMul(px, qty)
        cash1 == IF side = "buy" THEN NSub(s0.cash, notional) ELSE NAdd(s0.cash, notional)
        fee == feeOf(notional)
        prevPos == mkt.position
        newPos == NAdd(prevPos, IF side = "buy" THEN qty ELSE NNeg(qty))
        trade == [t |-> t, side |-> side, qty |-> qty, px |-> px,
                  notional |-> NMul(NMul(px, qty), NInt(IF side = "sell" THEN 1 ELSE -1))]
        realized == realizedOf(mkt, px, qty, newPos)
        book == [mkt EXCEPT
                   !.feesPaid = NAdd(@, fee),
                   !.realizedPnL = NAdd(@, realized),
                   !.entryPrice = entryAfter(mkt, px, qty, newPos),
                   !.position = newPos,
                   !.trades = Append(@, trade)]
    IN  [state |-> [s0 EXCEPT !.cash = NSub(cash1, fee), !.markets[symbol] = book],
         filled |-> TRUE, saved |-> TRUE, realized |-> realized]

\* ------------------------------------------------------------ status report

RECURSIVE SumNums(_, _)
\* the sum of f[k] over the keys k in S
SumNums(f, S) ==
  IF S = {} THEN NZero
  ELSE LET k == CHOOSE e \in S : TRUE
       IN  NAdd(f[k], SumNums(f, S \ {k}))

\* the book of a symbol of the universe (the report calls ensureMarket on it)
bookOf(st, symbol) == ensureMarket(st, symbol).markets[symbol]

bookUPnL(mkt) == IF IsNull(mkt.lastMark) THEN NZero ELSE markToMarketPx(mkt, mkt.lastMark)

upnlTotal(st) == SumNums([s \in Symbols |-> bookUPnL(bookOf(st, s))], Symbols)
rpnlTotal(st) == SumNums([s \in Symbols |-> bookOf(st, s).realizedPnL], Symbols)
feesTotal(st) ==
  SumNums([s \in DOMAIN st.markets |-> st.markets[s].feesPaid], DOMAIN st.markets)
equity(st) == NAdd(st.cash, upnlTotal(st))
navAlt(st) == NSub(NAdd(NAdd(st.deposit, rpnlTotal(st)), upnlTotal(st)), feesTotal(st))
\* 1e-6
navTolerance == [p |-> <<0, 0, 100>>, d |-> 1]
navMismatch(st) == NGt(NAbs(NSub(navAlt(st), equity(st))), navTolerance)

\* ------------------------------------------------------------ risk manager

\* the throttle window of evaluate, in ms
ThrottleWindowMs == 60000
\* ms per calendar day
DayMs == 86400000

\* new Date().toISOString().slice(0, 10), as a day number >= 1
today(t) == t \div DayMs + 1

RECURSIVE prune(_, _, _)
prune(arr, windowMs, t) ==
  IF Len(arr) > 0 /\ t - arr[1] > windowMs THEN prune(Tail(arr), windowMs, t) ELSE arr

riskUPnL(mkt) ==
  IF IsNull(mkt.lastMark) \/ NSign(mkt.position) = 0 THEN NZero
  ELSE NMul(NMul(NSub(mkt.lastMark, mkt.entryPrice), NInt(NSign(mkt.position))),
            NAbs(mkt.position))

calcUPnLTotal(st) ==
  SumNums([s \in DOMAIN st.markets |-> riskUPnL(st.markets[s])], DOMAIN st.markets)

getEquity(st) == NAdd(st.cash, calcUPnLTotal(st))

\* the state after ensureDayStartEquity() at time t, and the equity it returns
ensureDayStartEquity(st, t) ==
  IF st.meta.dayStartDate = 0 \/ st.meta.dayStartDate # today(t)
  THEN [state |-> [st EXCEPT !.meta.dayStartDate = today(t),
                             !.meta.dayStartEquity = getEquity(st)],
        eq |-> getEquity(st), saved |-> TRUE]
  ELSE [state |-> st, eq |-> st.meta.dayStartEquity, saved |-> FALSE]

\* variant: only a sell against a long counts as an exit
isExitLongOnly(st, symbol, side) ==
  side = "sell" /\ NSign(ensureMarket(st, symbol).markets[symbol].position) > 0

isExit(st, symbol, side) ==
  LET mkt == ensureMarket(st, symbol).markets[symbol]
  IN  IF side = "buy" THEN NSign(mkt.position) < 0
      ELSE IF side = "sell" THEN NSign(mkt.position) > 0
      ELSE FALSE

\* variant: the room under the ceiling is not floored at zero
maxDeltaBaseUnfloored(mkt, maxUsd, mark) ==
  NSub(NDiv(NInt(maxUsd), mark), NAbs(mkt.position))

\* the quantity that keeps |position| * mark at or under maxUsd
maxDeltaBase(mkt, maxUsd, mark) ==
  NMax(NZero, NSub(NDiv(NInt(maxUsd), mark), NAbs(mkt.position)))

capByMaxPosition(st, rc, symbol, side, desiredQty, mark) ==
  LET mkt == ensureMarket(st, symbol).markets[symbol]
      maxUsd == rc.MAX_POSITION_USD_PER_MARKET
      nextPos == IF side = "buy" THEN NAdd(mkt.position, desiredQty)
                 ELSE NSub(mkt.position, desiredQty)
      nextAbsUsd == NMul(NAbs(nextPos), mark)
  IN  IF maxUsd <= 0 THEN desiredQty
      ELSE IF NLe(nextAbsUsd, NInt(maxUsd)) THEN desiredQty
      ELSE NMin(desiredQty, maxDeltaBase(mkt, maxUsd, mark))

\* variant: the throttle trips only over its cap
throttledOverCap(rc, tts) == Len(tts) > rc.MAX_TRADES_PER_MIN

\* the throttle is at its cap
throttled(rc, tts) == Len(tts) >= rc.MAX_TRADES_PER_MIN

\* variant: the cooldown still runs at the instant it ends
inLossCooldownInclusive(rc, lossTs, t) ==
  rc.COOLDOWN_AFTER_LOSS_MS # 0 /\ t - lossTs <= rc.COOLDOWN_AFTER_LOSS_MS

\* the loss cooldown is running at time t
inLossCooldown(rc, lossTs, t) ==
  rc.COOLDOWN_AFTER_LOSS_MS # 0 /\ t - lossTs < rc.COOLDOWN_AFTER_LOSS_MS

\* variant: the percentage is taken as a fraction
underDailyFloorWholePct(rc, st, dayStartEq) ==
  NLe(NAdd(st.cash, calcUPnLTotal(st)),
      NMul(dayStartEq, NSub(NInt(1), NInt(rc.DAILY_LOSS_LIMIT_PCT))))

\* equity is at or under the day's floor
underDailyFloor(rc, st, dayStartEq) ==
  NLe(NAdd(st.cash, calcUPnLTotal(st)),
      NMul(dayStartEq, NSub(NInt(1), NRat(rc.DAILY_LOSS_LIMIT_PCT, 100))))

Decision(allowed, qty, reason) == [allowed |-> allowed, qty |-> qty, reason |-> reason]

\* evaluate(symbol, side, desiredQty, mark) at time t: the decision, and the
\* store's state and the throttle window after it
evaluate(st, rc, tts, lossTs, t, symbol, side, desiredQty, mark) ==
  LET s0 == ensureMarket(st, symbol)
      pruned == prune(tts, ThrottleWindowMs, t)
      day == ensureDayStartEquity(s0, t)
      s1 == IF rc.DAILY_LOSS_LIMIT_PCT > 0 THEN day.state ELSE s0
      cappedQty == capByMaxPosition(s1, rc, symbol, side, desiredQty, mark)
  IN  IF isExit(st, symbol, side)
      THEN [state |-> s0, tts |-> tts,
            res |-> Decision(NSign(desiredQty) > 0, desiredQty,
                             IF NSign(desiredQty) > 0 THEN "exit" ELSE "zero")]
      ELSE IF throttled(rc, pruned)
      THEN [state |-> s0, tts |-> pruned, res |-> Decision(FALSE, NZero, "throttle")]
      ELSE IF inLossCooldown(rc, lossTs, t)
      THEN [state |-> s0, tts |-> pruned,
            res |-> Decision(FALSE, NZero, "cooldown_after_loss")]
      ELSE IF rc.DAILY_LOSS_LIMIT_PCT > 0 /\ underDailyFloor(rc, s1, day.eq)
      THEN [state |-> s1, tts |-> pruned,
            res |-> Decision(FALSE, NZero, "daily_loss_limit")]
      ELSE IF NLt(cappedQty, desiredQty)
      THEN [state |-> s1, tts |-> pruned, res |-> Decision(TRUE, cappedQty, "max_position")]
      ELSE [state |-> s1, tts |-> Append(pruned, t),
            res |-> Decision(TRUE, desiredQty, "ok")]

onRealizedPnL(lossTs, pnl, t) == IF NSign(pnl) < 0 THEN t ELSE lossTs

\* ------------------------------------------------------------ strategy

\* the configurations of the adaptive EMA strategy that are explored
StratConfigs ==
  { [fastPeriod |-> 1, slowPeriod |-> 3, baseNotional |-> 100,
     enterBpsLong |-> 20, exitBpsLong |-> 10, enterBpsShort |-> 28, exitBpsShort |-> 12,
     longOnly |-> FALSE, minHoldMs |-> 120000, cooldownMs |-> 30000,
     volLookback |-> 3, volK |-> NZero, breakoutLookback |-> 0, breakoutBps |-> 5,
     minWarmTicks |-> 3],
    [fastPeriod |-> 1, slowPeriod |-> 3, baseNotional |-> 100,
     enterBpsLong |-> 20, exitBpsLong |-> 10, enterBpsShort |-> 28, exitBpsShort |-> 12,
     longOnly |-> TRUE, minHoldMs |-> 120000, cooldownMs |-> 30000,
     volLookback |-> 3, volK |-> NRat(1, 2), breakoutLookback |-> 2, breakoutBps |-> 5,
     minWarmTicks |-> 2] }

\* cfg.minWarmTicks is always a finite number in createConfig
warmTicksOf(cfg) == IMax(1, cfg.minWarmTicks)

\* Number.isFinite(v) ? v : null
finiteOrNull(v) == IF IsNull(v) THEN Null ELSE v

\* the seed main() hands to createStrategy: the stored snapshot, with
\* lastState synced to the book's position when the snapshot has none
seedOf(st, symbol) ==
  LET seed == getStrategyState(st, symbol)
      mkt == ensureMarket(st, symbol).markets[symbol]
  IN  IF seed.lastState = "" /\ NSign(mkt.position) # 0
      THEN [seed EXCEPT !.lastState = IF NSign(mkt.position) > 0 THEN "long" ELSE "short"]
      ELSE seed

\* the internal state of a strategy instance right after createStrategy
createStrategy(cfg, seed) ==
  [fast |-> finiteOrNull(seed.fast), slow |-> finiteOrNull(seed.slow),
   lastMark |-> finiteOrNull(seed.lastMark),
   volEwmaBps |-> finiteOrNull(seed.volEwmaBps),
   prevSlow |-> Null, lastState |-> "flat", entryTs |-> 0, lastExitTs |-> 0,
   ticks |-> 0, buf |-> <<>>]

pushMark(cfg, buf, m) ==
  IF cfg.breakoutLookback <= 0 THEN buf
  ELSE IF Len(buf) + 1 > cfg.breakoutLookback THEN Tail(Append(buf, m))
  ELSE Append(buf, m)

\* prev == null ? price : prev + k * (price - prev), with k = 2 / (period + 1)
emaStep(prev, price, period) ==
  IF IsNull(prev) THEN price
  ELSE NAdd(prev, NMul(NRat(2, period + 1), NSub(price, prev)))

\* |(mark - lastMark) / lastMark| * 1e4
retBpsOf(mark, lastMark) == NTimesBase(NAbs(NDiv(NSub(mark, lastMark), lastMark)))

volStep(cfg, eng, mark) ==
  IF IsNull(eng.lastMark) THEN eng.volEwmaBps
  ELSE emaStep(eng.volEwmaBps, retBpsOf(mark, eng.lastMark), cfg.volLookback)

RECURSIVE SeqMin(_)
SeqMin(q) == IF Len(q) = 1 THEN q[1] ELSE NMin(q[1], SeqMin(Tail(q)))
RECURSIVE SeqMax(_)
SeqMax(q) == IF Len(q) = 1 THEN q[1] ELSE NMax(q[1], SeqMax(Tail(q)))

\* (x / mark) * 1e4
bpsOfMark(x, mark) == NTimesBase(NDiv(x, mark))

\* (volEwmaBps ?? 0) * volK
volTerm(cfg, vol) == NMul(IF IsNull(vol) THEN NZero ELSE vol, cfg.volK)

dynEnterLong(cfg, vol) == NMax(NInt(cfg.enterBpsLong), volTerm(cfg, vol))
dynExitLong(cfg, vol) == NMax(NInt(cfg.exitBpsLong), NMul(volTerm(cfg, vol), NRat(1, 2)))
dynEnterShort(cfg, vol) == NMax(NInt(cfg.enterBpsShort), volTerm(cfg, vol))
dynExitShort(cfg, vol) == NMax(NInt(cfg.exitBpsShort), NMul(volTerm(cfg, vol), NRat(1, 2)))

breakoutOn(cfg, buf) == cfg.breakoutLookback > 0 /\ Len(buf) >= 2

longOK(cfg, buf, mark) ==
  breakoutOn(cfg, buf)
    => NGe(mark, NMul(SeqMax(buf), NSub(NInt(1), NPerBase(NInt(cfg.breakoutBps)))))

shortOK(cfg, buf, mark) ==
  breakoutOn(cfg, buf)
    => NLe(mark, NMul(SeqMin(buf), NAdd(NInt(1), NPerBase(NInt(cfg.breakoutBps)))))

\* variant: the warm-up ends one tick early
warmingUpShort(cfg, prevSlowLocal, ticks) ==
  IsNull(prevSlowLocal) \/ ticks + 1 < warmTicksOf(cfg)

\* the tick returns before the features are computed
warmingUp(cfg, prevSlowLocal, ticks) == IsNull(prevSlowLocal) \/ ticks < warmTicksOf(cfg)

\* variant: no cooldown after an exit
cooledAtOnce(cfg, eng, t) == TRUE

\* variant: an exit needs no hold
canExitAtOnce(cfg, eng, t) == TRUE

canExit(cfg, eng, t) == t - eng.entryTs >= cfg.minHoldMs
cooled(cfg, eng, t) == t - eng.lastExitTs >= cfg.cooldownMs

\* variant: the action is dropped
SignalSilent(eng, action) == [eng |-> eng, action |-> "none"]

Signal(eng, action) == [eng |-> eng, action |-> action]

\* variant: shorts are entered whatever longOnly says
flatStepShorting(cfg, e1, mark, deltaBps, slowSlopeBps, t) ==
  IF /\ NGt(deltaBps, dynEnterLong(cfg, e1.volEwmaBps))
     /\ NSign(slowSlopeBps) > 0 /\ cooled(cfg, e1, t) /\ longOK(cfg, e1.buf, mark)
  THEN Signal([e1 EXCEPT !.lastState = "long", !.entryTs = t], "buy")
  ELSE IF /\ NLt(deltaBps, NNeg(dynEnterShort(cfg, e1.volEwmaBps)))
          /\ NSign(slowSlopeBps) < 0 /\ cooled(cfg, e1, t) /\ shortOK(cfg, e1.buf, mark)
  THEN Signal([e1 EXCEPT !.lastState = "short", !.entryTs = t], "sell")
  ELSE Signal(e1, "none")

\* the flat branch of the state machine: the entry taken, if any
flatStep(cfg, e1, mark, deltaBps, slowSlopeBps, t) ==
  LET bullish == NSign(slowSlopeBps) > 0
      bearish == NSign(slowSlopeBps) < 0
  IN  IF /\ NGt(deltaBps, dynEnterLong(cfg, e1.volEwmaBps))
         /\ bullish /\ cooled(cfg, e1, t) /\ longOK(cfg, e1.buf, mark)
      THEN Signal([e1 EXCEPT !.lastState = "long", !.entryTs = t], "buy")
      ELSE IF /\ ~cfg.longOnly
              /\ NLt(deltaBps, NNeg(dynEnterShort(cfg, e1.volEwmaBps)))
              /\ bearish /\ cooled(cfg, e1, t) /\ shortOK(cfg, e1.buf, mark)
      THEN Signal([e1 EXCEPT !.lastState = "short", !.entryTs = t], "sell")
      ELSE Signal(e1, "none")

\* onPrice({ mark }) of a strategy instance at time t, for a finite mark: the
\* instance after the call and the action returned
onPrice(cfg, eng, mark, t) ==
  LET prevSlowLocal == eng.slow
      e0 == [eng EXCEPT !.volEwmaBps = volStep(cfg, eng, mark),
                        !.lastMark = mark,
                        !.buf = pushMark(cfg, eng.buf, mark),
                        !.fast = emaStep(eng.fast, mark, cfg.fastPeriod),
                        !.slow = emaStep(eng.slow, mark, cfg.slowPeriod),
                        !.ticks = eng.ticks + 1]
      e1 == [e0 EXCEPT !.prevSlow = prevSlowLocal]
      deltaBps == bpsOfMark(NSub(e0.fast, e0.slow), mark)
      slowSlopeBps == bpsOfMark(NSub(e0.slow, prevSlowLocal), mark)
  IN  IF warmingUp(cfg, prevSlowLocal, e0.ticks)
      THEN Signal([e0 EXCEPT !.prevSlow = e0.slow], "none")
      ELSE IF e1.lastState = "long"
      THEN IF NLt(deltaBps, NNeg(dynExitLong(cfg, e1.volEwmaBps))) /\ canExit(cfg, e1, t)
           THEN Signal([e1 EXCEPT !.lastState = "flat", !.lastExitTs = t], "sell")
           ELSE Signal(e1, "none")
      ELSE IF e1.lastState = "short" /\ ~cfg.longOnly
      THEN IF NGt(deltaBps, dynExitShort(cfg, e1.volEwmaBps)) /\ canExit(cfg, e1, t)
           THEN Signal([e1 EXCEPT !.lastState = "flat", !.lastExitTs = t], "buy")
           ELSE Signal(e1, "none")
      ELSE flatStep(cfg, e1, mark, deltaBps, slowSlopeBps, t)

snapshot(cfg, eng) ==
  [fast |-> eng.fast, slow |-> eng.slow, prevSlow |-> eng.prevSlow,
   lastState |-> eng.lastState, entryTs |-> eng.entryTs, lastExitTs |-> eng.lastExitTs,
   lastMark |-> eng.lastMark, volEwmaBps |-> eng.volEwmaBps, ticks |-> eng.ticks,
   warmTicks |-> warmTicksOf(cfg)]

NoSignal == [n |-> 0, mark |-> Null, action |-> "none", resumedAction |-> "unset"]

\* the strategy instances main() builds over a fresh store
FreshStrategy(cfg) ==
  /\ STRAT_EMA = cfg
  /\ strat = createStrategy(cfg, seedOf(FreshState, "SOL-PERP"))
  /\ resumed = [on |-> FALSE, eng |-> createStrategy(cfg, seedOf(FreshState, "SOL-PERP"))]
  /\ lastSignal = NoSignal

\* the strategy of the ledger and risk explorations: built, never fed
IdleStrategy == \E cfg \in {c \in StratConfigs : ~c.longOnly} : FreshStrategy(cfg)

\* ------------------------------------------------------------ ledger specification

nTrades(st) ==
  LET count[S \in SUBSET Symbols] ==
        IF S = {} THEN 0
        ELSE LET k == CHOOSE e \in S : TRUE
             IN  Len(st.markets[k].trades) + count[S \ {k}]
  IN  count[DOMAIN st.markets]

\* what a paperFill call was asked and what it did
FillRecord(qty, mark, f) ==
  [qty |-> qty, mark |-> mark, filled |-> f.filled, saved |-> f.saved]

NoFill == [qty |-> NZero, mark |-> Null, filled |-> FALSE, saved |-> FALSE]

\* quantities for which paperFill returns at once
NoQtys == {0, -1}

\* runBot before it is started
NoBot == [pc |-> "off"]

\* no state file yet, and a store whose writes are not followed
NoFile == [status |-> "absent", text |-> <<>>]
NoStore == [up |-> TRUE]
IdleFile == disk = NoFile /\ store = NoStore

IdleBot == lastFill = NoFill /\ bot = NoBot /\ strategiesBySymbol = <<>> /\ IdleFile

NoEval ==
  [n |-> 0, symbol |-> "", side |-> "", desiredQty |-> NZero, mark |-> Null,
   allowed |-> FALSE, qty |-> NZero, reason |-> ""]

NoRisk ==
  [MAX_POSITION_USD_PER_MARKET |-> 0, MAX_TRADES_PER_MIN |-> 0,
   DAILY_LOSS_LIMIT_PCT |-> 0, COOLDOWN_AFTER_LOSS_MS |-> 0]

Init ==
  /\ state = FreshState
  /\ now = StartNow
  /\ R = NoRisk
  /\ tradeTimestamps = <<>>
  /\ lastLossTs = 0
  /\ lastEval = NoEval
  /\ IdleStrategy
  /\ IdleBot

\* the runner caches the fetched mark in the book
CacheMark(symbol, m) ==
  /\ state' = [ensureMarket(state, symbol) EXCEPT !.markets[symbol].lastMark = NInt(m)]
  /\ UNCHANGED <<now, riskVars, stratVars, lastFill, botVars>>

\* a broker fill
Fill(symbol, side, qty, m) ==
  /\ nTrades(state) < MaxFills
  /\ \E f \in {paperFill(state, symbol, side, NInt(qty), NInt(m), now)} :
       /\ state' = f.state
       /\ lastFill' = FillRecord(NInt(qty), NInt(m), f)
  /\ UNCHANGED <<now, riskVars, stratVars, botVars>>

\* a broker call that asks for no quantity
FillNothing(symbol, side, qty, m) ==
  /\ qty <= 0
  /\ \E f \in {paperFill(state, symbol, side, NInt(qty), NInt(m), now)} :
       /\ state' = f.state
       /\ lastFill' = FillRecord(NInt(qty), NInt(m), f)
  /\ UNCHANGED <<now, riskVars, stratVars, botVars>>

Next ==
  \/ \E symbol \in Symbols, m \in Marks : CacheMark(symbol, m)
  \/ \E symbol \in Symbols, side \in Sides, qty \in Qtys, m \in Marks :
       Fill(symbol, side, qty, m)

Spec == Init /\ [][Next]_vars

\* the broker alone: calls of paperFill with and without a quantity
NextBroker ==
  \/ \E symbol \in Symbols, side \in Sides, qty \in Qtys, m \in Marks :
       Fill(symbol, side, qty, m)
  \/ \E symbol \in Symbols, side \in Sides, qty \in NoQtys, m \in Marks :
       FillNothing(symbol, side, qty, m)

SpecBroker == Init /\ [][NextBroker]_vars

\* ------------------------------------------------------------ ledger claims

\* this step is a fill on symbol: its trade log grew by one trade
FillStep(symbol) ==
  /\ HasMarket(state', symbol)
  /\ Len(state'.markets[symbol].trades) = Len(bookOf(state, symbol).trades) + 1

\* the trade a fill step appended
NewTrade(symbol) ==
  state'.markets[symbol].trades[Len(state'.markets[symbol].trades)]

\* the trade is on the side that closes the position pos
Closes(trade, pos) ==
  \/ NSign(pos) > 0 /\ trade.side = "sell"
  \/ NSign(pos) < 0 /\ trade.side = "buy"

\* (fillPrice - priorEntryPrice) * sign(priorPosition) * q
ClosedPnL(trade, prior, q) ==
  NMul(NMul(NSub(trade.px, prior.entryPrice), NInt(NSign(prior.position))), q)

SignedQty(trade) == IF trade.side = "buy" THEN trade.qty ELSE NNeg(trade.qty)

\* C1: in every reachable state the status report's two equity formulas agree
\* within 1e-6: cash + sum(uPnL) = deposit + sum(rPnL) + sum(uPnL) - sum(fees)
C1_NavConsistent == ~navMismatch(state)

\* C2: a fill against an open position that is smaller than the position
\* realizes (fillPrice - priorEntry) * sign(priorPosition) * qty and leaves
\* entryPrice unchanged
C2_PartialReduceRealizes ==
  [][\A symbol \in Symbols :
       LET prior == bookOf(state, symbol)
           trade == NewTrade(symbol)
           post == state'.markets[symbol]
       IN  (FillStep(symbol) /\ Closes(trade, prior.position)
              /\ NLt(trade.qty, NAbs(prior.position)))
           => /\ NEq(post.realizedPnL,
                     NAdd(prior.realizedPnL, ClosedPnL(trade, prior, trade.qty)))
              /\ NEq(post.entryPrice, prior.entryPrice)]_vars

\* C3: a fill that reverses the sign of an open position realizes
\* (fillPrice - priorEntry) * sign(priorPosition) * |priorPosition| only,
\* leaves position = priorPosition +/- qty and entryPrice = fillPrice
C3_FlipRealizesClosingPortion ==
  [][\A symbol \in Symbols :
       LET prior == bookOf(state, symbol)
           trade == NewTrade(symbol)
           post == state'.markets[symbol]
       IN  (FillStep(symbol) /\ Closes(trade, prior.position)
              /\ NGt(trade.qty, NAbs(prior.position)))
           => /\ NEq(post.realizedPnL,
                     NAdd(prior.realizedPnL, ClosedPnL(trade, prior, NAbs(prior.position))))
              /\ NEq(post.position, NAdd(prior.position, SignedQty(trade)))
              /\ NSign(post.position) = -NSign(prior.position)
              /\ NEq(post.entryPrice, trade.px)]_vars

\* C3 witness: long 2 filled at mark 100, then sell 3 filled at mark 110:
\* position -1 at the sell's fill price, (sell px - buy px) * 2 realized
C3_Witness ==
  \E symbol \in DOMAIN state.markets :
    LET mkt == state.markets[symbol]
    IN  /\ Len(mkt.trades) = 2
        /\ mkt.trades[1].side = "buy" /\ mkt.trades[1].qty = NInt(2)
        /\ mkt.trades[1].px = slip(NInt(100), "buy")
        /\ mkt.trades[2].side = "sell" /\ mkt.trades[2].qty = NInt(3)
        /\ mkt.trades[2].px = slip(NInt(110), "sell")
        /\ mkt.position = NInt(-1)
        /\ NEq(mkt.entryPrice, mkt.trades[2].px)
        /\ NEq(mkt.realizedPnL,
               NMul(NSub(mkt.trades[2].px, mkt.trades[1].px), NInt(2)))

\* C4: a fill that leaves the position exactly zero resets entryPrice to zero
\* and realizes (fillPrice - priorEntry) * sign(priorPosition) * qty, the
\* quantity closed
C4_FullCloseResetsEntry ==
  [][\A symbol \in Symbols :
       LET prior == bookOf(state, symbol)
           trade == NewTrade(symbol)
           post == state'.markets[symbol]
       IN  (FillStep(symbol) /\ NSign(post.position) = 0)
           => /\ NSign(post.entryPrice) = 0
              /\ NEq(trade.qty, NAbs(prior.position))
              /\ NEq(post.realizedPnL,
                     NAdd(prior.realizedPnL, ClosedPnL(trade, prior, trade.qty)))]_vars

\* C4 witness: a short opened by a sell at one mark was closed by a buy of
\* its whole size at another mark, leaving no position, no entry price and a
\* realized PnL of (entry - buy px) * size
C4_Witness ==
  \E symbol \in DOMAIN state.markets :
    LET mkt == state.markets[symbol]
    IN  /\ Len(mkt.trades) = 2
        /\ mkt.trades[1].side = "sell" /\ mkt.trades[2].side = "buy"
        /\ mkt.trades[1].qty = mkt.trades[2].qty
        /\ mkt.trades[1].px # mkt.trades[2].px
        /\ NSign(mkt.position) = 0 /\ NSign(mkt.entryPrice) = 0
        /\ NEq(mkt.realizedPnL,
               NMul(NSub(mkt.trades[1].px, mkt.trades[2].px), mkt.trades[1].qty))
        /\ NSign(mkt.realizedPnL) # 0

\* a paperFill call that asked for no quantity
NoQtyStep == lastFill' # lastFill /\ NSign(lastFill'.qty) <= 0

\* C20: a fill request with quantity <= 0 changes nothing: cash, fees,
\* positions, entry prices, realized PnL and the trade log stay as they were, and
\* the state file is not written
C20_NoQtyNoEffect ==
  [][NoQtyStep => state' = state /\ ~lastFill'.filled /\ ~lastFill'.saved]_vars

\* a no-quantity request arrived while a position was open and trades were logged
C20_Witness ==
  /\ NSign(lastFill.qty) < 0
  /\ nTrades(state) > 0
  /\ \E symbol \in Symbols :
       HasMarket(state, symbol) /\ NSign(state.markets[symbol].position) # 0

\* a fraction of x given in basis points
BpsOf(bps, x) == NDiv(NMul(NInt(bps), x), NInt(BpsBase))

\* C21: a fill of a positive quantity at mark m is priced at m plus the
\* slippage on a buy and m minus the slippage on a sell; cash moves by
\* -px * qty - fee on a buy and +px * qty - fee on a sell, with fee the fee bps
\* of px * qty, and the book's feesPaid grows by that fee
C21_SlippageAndFee ==
  [][\A symbol \in Symbols :
       FillStep(symbol)
         => \E trade \in {NewTrade(symbol)}, m \in {lastFill'.mark} :
            \E notional \in {NMul(trade.px, trade.qty)}, slipped \in {BpsOf(slippageBps, m)} :
            \E fee \in {BpsOf(feeBps, notional)} :
              /\ NSign(trade.qty) > 0 /\ NEq(trade.qty, lastFill'.qty)
              /\ NSign(fee) > 0
              /\ NEq(state'.markets[symbol].feesPaid,
                     NAdd(bookOf(state, symbol).feesPaid, fee))
              /\ IF trade.side = "buy"
                 THEN /\ NEq(trade.px, NAdd(m, slipped))
                      /\ NGt(trade.px, m)
                      /\ NEq(state'.cash, NSub(NSub(state.cash, notional), fee))
                 ELSE /\ NEq(trade.px, NSub(m, slipped))
                      /\ NLt(trade.px, m)
                      /\ NEq(state'.cash, NSub(NAdd(state.cash, notional), fee))]_vars

\* C21 witness: a sell was filled under the mark after a buy filled over it
C21_Witness ==
  /\ lastFill.filled
  /\ \E symbol \in Symbols :
       /\ HasMarket(state, symbol) /\ Len(state.markets[symbol].trades) = 2
       /\ state.markets[symbol].trades[1].side = "buy"
       /\ state.markets[symbol].trades[2].side = "sell"
       /\ NLt(state.markets[symbol].trades[2].px, lastFill.mark)
       /\ NSign(state.markets[symbol].feesPaid) > 0

\* C22: in every book the entry price is zero exactly when the position is
\* zero
C22_EntryIffPosition ==
  \A symbol \in DOMAIN state.markets :
    NSign(state.markets[symbol].entryPrice) = 0
      <=> NSign(state.markets[symbol].position) = 0

\* C22 witness: a book was opened and closed to flat at another price, and
\* its entry price is back to zero
C22_Witness ==
  \E a \in Symbols :
    /\ HasMarket(state, a) /\ Len(state.markets[a].trades) > 1
    /\ ~NEq(state.markets[a].trades[1].px, state.markets[a].trades[2].px)
    /\ NSign(state.markets[a].position) = 0
    /\ NSign(state.markets[a].entryPrice) = 0




\* ------------------------------------------------------------ risk specification

\* bounds of the risk manager's exploration
MaxRiskFills == 1
MaxAdvances == 1
\* the size of the fills that build the positions the risk manager sees
RiskFillQty == 2
\* the clock's step between calls, in ms
StepMs == 60000

\* the markets the bot is configured with in the risk exploration
RiskSymbols == {"SOL-PERP"}

\* the sizes of the orders put to the risk manager
OrderQtys == {1, 3}

RiskConfigs ==
  { [MAX_POSITION_USD_PER_MARKET |-> 210, MAX_TRADES_PER_MIN |-> 1,
     DAILY_LOSS_LIMIT_PCT |-> 1, COOLDOWN_AFTER_LOSS_MS |-> 60000],
    [MAX_POSITION_USD_PER_MARKET |-> 0, MAX_TRADES_PER_MIN |-> 2,
     DAILY_LOSS_LIMIT_PCT |-> 0, COOLDOWN_AFTER_LOSS_MS |-> 0] }

\* the runner calls ensureDayStartEquity before its first tick
InitRisk ==
  /\ state = ensureDayStartEquity(FreshState, StartNow).state
  /\ now = StartNow
  /\ R \in RiskConfigs
  /\ tradeTimestamps = <<>>
  /\ lastLossTs = 0
  /\ lastEval = NoEval
  /\ IdleStrategy
  /\ IdleBot

\* the clock moves on
Advance(d) ==
  /\ now + d <= StartNow + MaxAdvances * StepMs
  /\ now' = now + d
  /\ UNCHANGED <<state, riskVars, stratVars, lastFill, botVars>>

\* the clock passes midnight once: the same time of day on the next date
NextDay ==
  /\ today(now) = today(StartNow)
  /\ now' = now + DayMs
  /\ UNCHANGED <<state, riskVars, stratVars, lastFill, botVars>>

\* a broker fill at the symbol's cached mark
RiskFill(symbol, side, qty) ==
  /\ nTrades(state) < MaxRiskFills
  /\ HasMarket(state, symbol) /\ ~IsNull(state.markets[symbol].lastMark)
  /\ \E f \in {paperFill(state, symbol, side, NInt(qty),
                          state.markets[symbol].lastMark, now)} :
       /\ state' = f.state
       /\ lastFill' = FillRecord(NInt(qty), state.markets[symbol].lastMark, f)
  /\ UNCHANGED <<now, riskVars, stratVars, botVars>>

\* risk.evaluate on an order at the symbol's cached mark
Evaluate(symbol, side, qty) ==
  /\ HasMarket(state, symbol) /\ ~IsNull(state.markets[symbol].lastMark)
  /\ \E mark \in {state.markets[symbol].lastMark} :
     \E e \in {evaluate(state, R, tradeTimestamps, lastLossTs, now,
                        symbol, side, NInt(qty), mark)} :
         /\ state' = e.state
         /\ tradeTimestamps' = e.tts
         /\ lastEval' = [n |-> 1 - lastEval.n, symbol |-> symbol, side |-> side,
                         desiredQty |-> NInt(qty), mark |-> mark,
                         allowed |-> e.res.allowed, qty |-> e.res.qty,
                         reason |-> e.res.reason]
  /\ UNCHANGED <<now, R, lastLossTs, stratVars, lastFill, botVars>>

\* the post-fill hook, with a realized PnL of the given sign
OnRealizedPnL(pnl) ==
  /\ lastLossTs' = onRealizedPnL(lastLossTs, NInt(pnl), now)
  /\ UNCHANGED <<state, now, R, tradeTimestamps, lastEval, stratVars, lastFill, botVars>>

NextRisk ==
  \/ \E symbol \in RiskSymbols, m \in Marks : CacheMark(symbol, m)
  \/ \E symbol \in RiskSymbols, side \in Sides : RiskFill(symbol, side, RiskFillQty)
  \/ \E symbol \in RiskSymbols, side \in Sides, qty \in OrderQtys : Evaluate(symbol, side, qty)
  \/ \E pnl \in {-1, 1} : OnRealizedPnL(pnl)
  \/ Advance(StepMs)

SpecRisk == InitRisk /\ [][NextRisk]_vars

\* the risk manager over two calendar dates
NextRiskDay == NextRisk \/ NextDay

SpecRiskDay == InitRisk /\ [][NextRiskDay]_vars

\* orders up to a size that takes a position of RiskFillQty past flat to a
\* larger one on the other side
FlipQtys == {1, 5}

\* the risk manager asked about such orders, at one instant
NextFlip ==
  \/ \E symbol \in RiskSymbols, m \in Marks : CacheMark(symbol, m)
  \/ \E symbol \in RiskSymbols, side \in Sides : RiskFill(symbol, side, RiskFillQty)
  \/ \E symbol \in RiskSymbols, side \in Sides, qty \in FlipQtys : Evaluate(symbol, side, qty)

SpecFlip == InitRisk /\ [][NextFlip]_vars

\* ------------------------------------------------------------ risk claims

\* this step is a call of risk.evaluate; lastEval' holds its order and decision
EvalStep == lastEval'.n # lastEval.n

\* the position of the order's instrument when evaluate is called
EvalPos == state.markets[lastEval'.symbol].position

\* the order reduces the instrument's exposure: it is on the side opposite to
\* an open position
ReducingOrder(pos, side) ==
  \/ NSign(pos) > 0 /\ side = "sell"
  \/ NSign(pos) < 0 /\ side = "buy"

\* the trade timestamps no older than the throttle window at time t
WindowCount(tts, t) == Cardinality({i \in 1..Len(tts) : t - tts[i] <= ThrottleWindowMs})

\* the absolute notional of the instrument after the order's permitted
\* quantity is added to the position's magnitude
NotionalAfter(pos, qty, mark) == NMul(NAdd(NAbs(pos), qty), mark)

\* C5: whatever the throttle window, the loss cooldown and the equity are, an
\* order of positive quantity on the side opposite to an open position is
\* returned allowed with the quantity that was asked
C5_ExitAlwaysAllowed ==
  [][(EvalStep /\ ReducingOrder(EvalPos, lastEval'.side)
               /\ NSign(lastEval'.desiredQty) > 0)
       => /\ lastEval'.allowed
          /\ NEq(lastEval'.qty, lastEval'.desiredQty)]_vars

\* C5 witness: an exit was allowed in full while the throttle window is at
\* its cap, the loss cooldown is running and equity is under the day's floor
C5_Witness ==
  /\ lastEval.reason = "exit" /\ lastEval.allowed
  /\ NEq(lastEval.qty, lastEval.desiredQty)
  /\ ReducingOrder(state.markets[lastEval.symbol].position, lastEval.side)
  /\ R.MAX_TRADES_PER_MIN > 0
  /\ WindowCount(tradeTimestamps, now) = R.MAX_TRADES_PER_MIN
  /\ R.COOLDOWN_AFTER_LOSS_MS > 0 /\ now - lastLossTs < R.COOLDOWN_AFTER_LOSS_MS
  /\ R.DAILY_LOSS_LIMIT_PCT > 0
  /\ NLt(getEquity(state), state.meta.dayStartEquity)
  /\ underDailyFloor(R, state, state.meta.dayStartEquity)

\* the order opens or increases a position, was not stopped by the throttle,
\* the cooldown or the drawdown check, and its full quantity would take the
\* instrument's notional over the configured ceiling
OverCeilingEntry ==
  /\ EvalStep
  /\ ~ReducingOrder(EvalPos, lastEval'.side)
  /\ lastEval'.reason \notin {"throttle", "cooldown_after_loss", "daily_loss_limit"}
  /\ R.MAX_POSITION_USD_PER_MARKET > 0
  /\ NGt(NotionalAfter(EvalPos, lastEval'.desiredQty, lastEval'.mark),
         NInt(R.MAX_POSITION_USD_PER_MARKET))

C7_ThrottleAtCap ==
  [][(EvalStep /\ WindowCount(tradeTimestamps, now) = R.MAX_TRADES_PER_MIN)
       => IF ReducingOrder(EvalPos, lastEval'.side)
          THEN lastEval'.allowed
          ELSE /\ ~lastEval'.allowed
               /\ lastEval'.reason = "throttle"
               /\ NSign(lastEval'.qty) = 0]_vars

\* C7 witness: with one trade in the window and a cap of one, an order adding
\* to an open position was rejected by the throttle
C7_Witness ==
  /\ lastEval.reason = "throttle" /\ ~lastEval.allowed
  /\ R.MAX_TRADES_PER_MIN > 0
  /\ WindowCount(tradeTimestamps, now) = R.MAX_TRADES_PER_MIN
  /\ NSign(state.markets[lastEval.symbol].position) # 0
  /\ ~ReducingOrder(state.markets[lastEval.symbol].position, lastEval.side)

\* the order opens or increases a position and the throttle has room for it
OpeningUnthrottled ==
  /\ EvalStep
  /\ ~ReducingOrder(EvalPos, lastEval'.side)
  /\ WindowCount(tradeTimestamps, now) < R.MAX_TRADES_PER_MIN

\* a losing fill was reported to the risk manager, at time lastLossTs
LossReported == lastLossTs > 0

\* C15: after a losing fill was reported at time t, an opening order that is
\* not throttled is rejected with reason "cooldown_after_loss" and quantity 0
\* when evaluated before t + COOLDOWN_AFTER_LOSS_MS, and is not rejected on
\* that ground when evaluated at or after t + COOLDOWN_AFTER_LOSS_MS
C15_LossCooldownWindow ==
  [][(OpeningUnthrottled /\ LossReported /\ R.COOLDOWN_AFTER_LOSS_MS > 0)
       => IF now < lastLossTs + R.COOLDOWN_AFTER_LOSS_MS
          THEN /\ ~lastEval'.allowed
               /\ lastEval'.reason = "cooldown_after_loss"
               /\ NSign(lastEval'.qty) = 0
          ELSE lastEval'.reason # "cooldown_after_loss"]_vars

\* C15 witness: an opening order was rejected inside the cooldown of a
\* reported loss, the throttle window being empty
C15_Witness ==
  /\ lastEval.reason = "cooldown_after_loss" /\ ~lastEval.allowed
  /\ ~ReducingOrder(state.markets[lastEval.symbol].position, lastEval.side)
  /\ LossReported /\ now < lastLossTs + R.COOLDOWN_AFTER_LOSS_MS
  /\ WindowCount(tradeTimestamps, now) = 0

\* an opening order was let through at the instant the cooldown ended
C15_WitnessExpired ==
  /\ lastEval.n # NoEval.n /\ lastEval.allowed
  /\ ~ReducingOrder(state.markets[lastEval.symbol].position, lastEval.side)
  /\ LossReported /\ R.COOLDOWN_AFTER_LOSS_MS > 0
  /\ now = lastLossTs + R.COOLDOWN_AFTER_LOSS_MS

\* the equity anchor of the date of time t: the stored one when it was taken
\* on that date, the present equity when it is yet to be taken
DayAnchor(st, t) ==
  IF st.meta.dayStartDate = today(t) THEN st.meta.dayStartEquity ELSE getEquity(st)

\* equity (cash + unrealized PnL at the cached marks) is below
\* dayStartEquity * (1 - pct / 100)
BelowDailyFloor(st, t) ==
  NLt(getEquity(st),
      NMul(DayAnchor(st, t), NSub(NInt(1), NRat(R.DAILY_LOSS_LIMIT_PCT, 100))))

\* C17: with a daily drawdown percentage configured and equity below the
\* day's floor, an opening order that is neither throttled nor in the loss
\* cooldown is rejected with reason "daily_loss_limit" and quantity 0, and an
\* exit order is allowed
C17_DailyLossLimit ==
  [][(EvalStep /\ R.DAILY_LOSS_LIMIT_PCT > 0 /\ BelowDailyFloor(state, now))
       => IF ReducingOrder(EvalPos, lastEval'.side)
          THEN lastEval'.allowed
          ELSE (OpeningUnthrottled
                  /\ ~(R.COOLDOWN_AFTER_LOSS_MS > 0
                        /\ now < lastLossTs + R.COOLDOWN_AFTER_LOSS_MS))
                 => /\ ~lastEval'.allowed
                    /\ lastEval'.reason = "daily_loss_limit"
                    /\ NSign(lastEval'.qty) = 0]_vars

\* C17 witness: an order adding to an open position was rejected by the
\* drawdown check, equity being below the floor
C17_Witness ==
  /\ lastEval.reason = "daily_loss_limit" /\ ~lastEval.allowed
  /\ NSign(state.markets[lastEval.symbol].position) # 0
  /\ ~ReducingOrder(state.markets[lastEval.symbol].position, lastEval.side)
  /\ R.DAILY_LOSS_LIMIT_PCT > 0 /\ BelowDailyFloor(state, now)

\* an exit was allowed with equity below the floor
C17_WitnessExit ==
  /\ lastEval.reason = "exit" /\ lastEval.allowed
  /\ ReducingOrder(state.markets[lastEval.symbol].position, lastEval.side)
  /\ R.DAILY_LOSS_LIMIT_PCT > 0 /\ BelowDailyFloor(state, now)

\* C18: with a daily drawdown percentage configured, the first evaluation of
\* a calendar date, whatever the order and the decision, stores that date and
\* the equity of that moment as the day's anchor, and no evaluation or fill
\* changes an anchor taken on the same date
C18_AnchorAtFirstEvaluation ==
  [][/\ (EvalStep /\ R.DAILY_LOSS_LIMIT_PCT > 0
                  /\ state.meta.dayStartDate # today(now))
         => /\ state'.meta.dayStartDate = today(now)
            /\ NEq(state'.meta.dayStartEquity, getEquity(state))
     /\ (state.meta.dayStartDate = today(now') /\ now' = now)
         => state'.meta = state.meta]_vars

\* C19: an evaluation of a non-exit order that is allowed, in full or cut by
\* the position ceiling, appends one timestamp to the trade-rate window; a
\* rejected evaluation and an exit evaluation append none
C19_ApprovedRecorded ==
  [][EvalStep
       => IF ~ReducingOrder(EvalPos, lastEval'.side) /\ lastEval'.allowed
          THEN tradeTimestamps' = Append(prune(tradeTimestamps, ThrottleWindowMs, now), now)
          ELSE tradeTimestamps' \in {tradeTimestamps, prune(tradeTimestamps, ThrottleWindowMs, now)}]_vars


\* ------------------------------------------------------------ strategy specification

\* the ticks a strategy instance is fed
MaxTicks == 5
\* the market whose strategy is explored
StratSymbol == "SOL-PERP"
StratMarks == {100, 101}
\* the time between two ticks, in ms
TickGaps == {10000, 120000}

InitStrategy ==
  /\ state = FreshState
  /\ now = StartNow
  /\ R = NoRisk
  /\ tradeTimestamps = <<>>
  /\ lastLossTs = 0
  /\ lastEval = NoEval
  /\ \E cfg \in StratConfigs : FreshStrategy(cfg)
  /\ IdleBot

\* a tick of the runner with a finite mark, gap ms after the last one: both
\* instances consume the mark and the running one's snapshot is stored
OnPrice(m, gap) ==
  /\ strat.ticks < MaxTicks
  /\ now' = now + gap
  /\ \E sig \in {onPrice(STRAT_EMA, strat, NInt(m), now + gap)} :
     \E rsig \in {onPrice(STRAT_EMA, resumed.eng, NInt(m), now + gap)} :
       /\ strat' = sig.eng
       /\ resumed' = IF resumed.on THEN [resumed EXCEPT !.eng = rsig.eng] ELSE resumed
       /\ state' = setStrategyState(state, StratSymbol, snapshot(STRAT_EMA, sig.eng))
       /\ lastSignal' = [n |-> 1 - lastSignal.n, mark |-> NInt(m),
                         action |-> sig.action,
                         resumedAction |-> IF resumed.on THEN rsig.action ELSE "unset"]
  /\ UNCHANGED <<riskVars, STRAT_EMA, lastFill, botVars>>

\* a tick whose mark is not a finite number: onPrice returns at once
OnBadPrice ==
  /\ state' = setStrategyState(state, StratSymbol, snapshot(STRAT_EMA, strat))
  /\ lastSignal' = [n |-> 1 - lastSignal.n, mark |-> Null, action |-> "none",
                    resumedAction |-> IF resumed.on THEN "none" ELSE "unset"]
  /\ UNCHANGED <<now, riskVars, STRAT_EMA, strat, resumed, lastFill, botVars>>

\* the process restarts: main() builds a strategy instance from the store
Restart ==
  /\ ~resumed.on
  /\ resumed' = [on |-> TRUE, eng |-> createStrategy(STRAT_EMA, seedOf(state, StratSymbol))]
  /\ UNCHANGED <<state, now, riskVars, STRAT_EMA, strat, lastSignal, lastFill, botVars>>

NextStrategy ==
  \/ \E m \in StratMarks, gap \in TickGaps : OnPrice(m, gap)
  \/ OnBadPrice
  \/ Restart

SpecStrategy == InitStrategy /\ [][NextStrategy]_vars

\* ------------------------------------------------------------ strategy claims

\* this step is an onPrice call with a finite mark; lastSignal' holds the mark
\* and the action returned
TickStep == lastSignal'.n # lastSignal.n /\ ~IsNull(lastSignal'.mark)

\* next is the exponential average of prev and x over period: x when there was
\* no average yet, else next * (period + 1) = prev * (period - 1) + 2 * x
EmaUpdated(prev, next, x, period) ==
  /\ ~IsNull(next)
  /\ IF IsNull(prev) THEN NEq(next, x)
     ELSE NEq(NMul(next, NInt(period + 1)),
              NAdd(NMul(prev, NInt(period - 1)), NMul(NInt(2), x)))

\* the absolute move from mark a to mark b, in bps of a
MoveBps(a, b) == NDiv(NTimesBase(NAbs(NSub(b, a))), a)

\* fast minus slow average of an instance, in bps of its last mark
SpreadBps(eng) == NDiv(NTimesBase(NSub(eng.fast, eng.slow)), eng.lastMark)

\* C8: on a tick that leaves the tick counter under the warm-up threshold no
\* action is emitted and the regime is kept, while the tick counter grows by
\* one and the last mark, both EMAs and the volatility estimate take the mark in
C8_WarmupSilent ==
  [][(TickStep /\ strat.ticks + 1 < warmTicksOf(STRAT_EMA))
       => /\ lastSignal'.action = "none"
          /\ strat'.lastState = strat.lastState
          /\ strat'.ticks = strat.ticks + 1
          /\ NEq(strat'.lastMark, lastSignal'.mark)
          /\ EmaUpdated(strat.fast, strat'.fast, lastSignal'.mark, STRAT_EMA.fastPeriod)
          /\ EmaUpdated(strat.slow, strat'.slow, lastSignal'.mark, STRAT_EMA.slowPeriod)
          /\ IF IsNull(strat.lastMark) THEN IsNull(strat'.volEwmaBps)
             ELSE EmaUpdated(strat.volEwmaBps, strat'.volEwmaBps,
                             MoveBps(strat.lastMark, lastSignal'.mark),
                             STRAT_EMA.volLookback)]_vars

\* C8 witness: a tick before the end of the warm-up moved the averages apart by
\* more than the long entry threshold, moved the volatility estimate off zero,
\* and emitted nothing
C8_Witness ==
  /\ strat.ticks >= 2 /\ strat.ticks < warmTicksOf(STRAT_EMA)
  /\ lastSignal.action = "none" /\ ~IsNull(lastSignal.mark)
  /\ strat.lastState = "flat"
  /\ NGt(SpreadBps(strat), NInt(STRAT_EMA.enterBpsLong))
  /\ ~IsNull(strat.volEwmaBps) /\ NSign(strat.volEwmaBps) > 0

\* breakout confirmation is off and the volatility multiplier is zero
PlainThresholds == STRAT_EMA.breakoutLookback = 0 /\ NSign(STRAT_EMA.volK) = 0

\* the tick is past the warm-up
WarmTick == TickStep /\ ~IsNull(strat.slow) /\ strat.ticks + 1 >= warmTicksOf(STRAT_EMA)

\* on this tick the spread exceeds the long entry threshold, the slow average
\* rose and the cooldown since the last exit has elapsed
LongEntryDue ==
  /\ NGt(SpreadBps(strat'), NInt(STRAT_EMA.enterBpsLong))
  /\ NGt(strat'.slow, strat.slow)
  /\ now' - strat.lastExitTs >= STRAT_EMA.cooldownMs

\* C9: with plain thresholds, on a tick past the warm-up a flat instance goes
\* long exactly when the spread exceeds the long entry threshold with a rising
\* slow average and an elapsed cooldown, and it emits buy on that tick; an
\* instance that is long emits no buy
C9_LongEntryOnce ==
  [][(WarmTick /\ PlainThresholds)
       => /\ strat.lastState = "flat"
               => /\ LongEntryDue <=> strat'.lastState = "long"
                  /\ LongEntryDue => /\ lastSignal'.action = "buy"
                                     /\ strat'.entryTs = now'
          /\ strat.lastState = "long" => lastSignal'.action # "buy"]_vars

\* C9 witness: the instance went long on an earlier tick and, on a later tick
\* on which the spread again exceeds the long entry threshold, emitted nothing
C9_Witness ==
  /\ PlainThresholds
  /\ strat.lastState = "long" /\ strat.entryTs < now
  /\ lastSignal.action = "none" /\ ~IsNull(lastSignal.mark)
  /\ NGt(SpreadBps(strat), NInt(STRAT_EMA.enterBpsLong))
  /\ NGt(strat.slow, strat.prevSlow)

\* C10: an instance built from the stored snapshot has the snapshot of the
\* instance that ran on, and returned the same action on the last tick both
\* consumed
C10_ResumeContinues ==
  resumed.on
    => /\ snapshot(STRAT_EMA, resumed.eng) = snapshot(STRAT_EMA, strat)
       /\ lastSignal.resumedAction \in {"unset", lastSignal.action}

\* a call of onPrice, with a finite mark or not
CallStep == lastSignal'.n # lastSignal.n

\* the regime moved from a to b between the instance e and the instance f
Moved(e, f, a, b) == e.lastState = a /\ f.lastState = b

\* the instance e became f in a call that emitted action: one of the four
\* regime moves with its action, or no move and no action
RegimeMove(e, f, action) ==
  \/ Moved(e, f, "flat", "long") /\ action = "buy"
  \/ Moved(e, f, "flat", "short") /\ action = "sell" /\ ~STRAT_EMA.longOnly
  \/ Moved(e, f, "long", "flat") /\ action = "sell"
  \/ Moved(e, f, "short", "flat") /\ action = "buy"
  \/ e.lastState = f.lastState /\ action = "none"

IsExit(e, f) == e.lastState \in {"long", "short"} /\ f.lastState = "flat"
IsEntry(e, f) == e.lastState = "flat" /\ f.lastState \in {"long", "short"}

\* C23: the regime changes only flat -> long with a buy, flat -> short with a
\* sell when shorts are enabled, long -> flat with a sell and short -> flat
\* with a buy, and an action is emitted exactly on the calls that change it
C23_RegimeMoves ==
  [][CallStep
       => /\ RegimeMove(strat, strat', lastSignal'.action)
          /\ resumed.on
               => RegimeMove(resumed.eng, resumed'.eng, lastSignal'.resumedAction)]_vars

\* C23 witness: a short was entered and, after the hold, left with a buy
C23_Witness ==
  /\ lastSignal.action = "buy" /\ strat.lastState = "flat"
  /\ strat.entryTs > 0 /\ strat.lastExitTs = now
  /\ strat.lastExitTs >= strat.entryTs + STRAT_EMA.minHoldMs

\* C24: an exit is never emitted before the entry time plus minHoldMs
C24_MinHold ==
  [][CallStep
       => /\ IsExit(strat, strat') => now' >= strat.entryTs + STRAT_EMA.minHoldMs
          /\ (resumed.on /\ IsExit(resumed.eng, resumed'.eng))
               => now' >= resumed.eng.entryTs + STRAT_EMA.minHoldMs]_vars

\* C24 witness: after the warm-up a long was left at the very instant its hold
\* ended
C24_Witness ==
  /\ lastSignal.action = "sell" /\ strat.lastState = "flat"
  /\ strat.entryTs > 0
  /\ strat.lastExitTs = strat.entryTs + STRAT_EMA.minHoldMs
  /\ strat.ticks > warmTicksOf(STRAT_EMA) + 1

\* C25: an entry is never emitted before the time of the last exit plus
\* cooldownMs
C25_Cooldown ==
  [][CallStep
       => /\ IsEntry(strat, strat') => now' >= strat.lastExitTs + STRAT_EMA.cooldownMs
          /\ (resumed.on /\ IsEntry(resumed.eng, resumed'.eng))
               => now' >= resumed.eng.lastExitTs + STRAT_EMA.cooldownMs]_vars

\* C25 witness: a position was entered again after an exit and its cooldown
C25_Witness ==
  /\ lastSignal.action # "none" /\ strat.lastState \in {"long", "short"}
  /\ strat.lastExitTs > 0 /\ strat.entryTs = now
  /\ strat.entryTs >= strat.lastExitTs + STRAT_EMA.cooldownMs


\* ------------------------------------------------------------ orchestrator

\* the market universe, in its order
Universe == <<"SOL-PERP", "BTC-PERP">>

MIN_MARK_MOVE_BPS == 1
LOG_EVERY_MS == 10000
AutosaveMs == 30000

\* cfg.TICK_MS
TickMs == 20000

\* the members of the object createRiskManager returns
riskApi == {"evaluate", "onRealizedPnL", "ensureDayStartEquity"}

\* what getMarkPrice gives: a mark, nothing, or a rejection
BotMarks == {100, 101}
FetchOutcomes ==
  {[kind |-> "mark", mark |-> m] : m \in BotMarks}
    \cup {[kind |-> "nothing", mark |-> 0], [kind |-> "throw", mark |-> 0]}

\* cfg.STRAT_EMA of the runner
BotStratConfigs ==
  { [fastPeriod |-> 1, slowPeriod |-> 3, baseNotional |-> 100,
     enterBpsLong |-> 20, exitBpsLong |-> 10, enterBpsShort |-> 28, exitBpsShort |-> 12,
     longOnly |-> lo, minHoldMs |-> TickMs, cooldownMs |-> TickMs,
     volLookback |-> 3, volK |-> NZero, breakoutLookback |-> 0, breakoutBps |-> 5,
     minWarmTicks |-> 2] : lo \in BOOLEAN }

\* store.ensureMarket over the universe, from its i-th symbol on
RECURSIVE ensureUniverse(_, _)
ensureUniverse(st, i) ==
  IF i > Len(Universe) THEN st
  ELSE ensureUniverse(ensureMarket(st, Universe[i]), i + 1)

\* variant: the gate also holds back an instrument that has no cached mark
gatedFirstTick(prevMark, mark) ==
  \/ IsNull(prevMark)
  \/ NLt(NMul(NAbs(NDiv(NSub(mark, prevMark), prevMark)), NInt(BpsBase)),
         NInt(MIN_MARK_MOVE_BPS))

\* the price move gate: the mark moved less than MIN_MARK_MOVE_BPS
gated(prevMark, mark) ==
  /\ ~IsNull(prevMark)
  /\ NLt(NMul(NAbs(NDiv(NSub(mark, prevMark), prevMark)), NInt(BpsBase)),
         NInt(MIN_MARK_MOVE_BPS))

baseQtyOf(cfg, mark) == NMax(NRat(1, 1000), NDiv(NInt(cfg.baseNotional), mark))

\* variant: an exit is sent at the base quantity
exitQtyUnclamped(baseQty, pos) == baseQty

\* an exit goes toward flat, never past it
exitQty(baseQty, pos) == NMin(baseQty, NAbs(pos))

\* the quantity the runner asks the risk manager for
orderQty(cfg, action, pos, baseQty) ==
  IF action = "buy"
  THEN IF NSign(pos) < 0 THEN exitQty(baseQty, pos)
       ELSE IF NSign(pos) = 0 THEN baseQty ELSE NZero
  ELSE IF action = "sell"
  THEN IF NSign(pos) > 0 THEN exitQty(baseQty, pos)
       ELSE IF NSign(pos) = 0 /\ ~cfg.longOnly THEN baseQty ELSE NZero
  ELSE NZero

\* what one pass of the loop body did
Pass(st, eng, tts, ev, fl, hook, threw) ==
  [state |-> st, eng |-> eng, tts |-> tts, eval |-> ev, fill |-> fl,
   hook |-> hook, threw |-> threw]

NoDecision == [called |-> FALSE]

\* variant: the loop throws where it would go on to the next instrument
skipThrowing(st, eng, tts) == Pass(st, eng, tts, NoDecision, NoFill, "none", TRUE)

\* `continue`: the loop leaves the instrument for this tick
skip(st, eng, tts) == Pass(st, eng, tts, NoDecision, NoFill, "none", FALSE)

\* variant: the runner sends the order to the broker whatever the decision
executeUnvetoed(st, rc, eng, tts, lossTs, t, symbol, side, qty, mark) ==
  LET e == evaluate(st, rc, tts, lossTs, t, symbol, side, qty, mark)
      ev == [called |-> TRUE, symbol |-> symbol, side |-> side, desiredQty |-> qty,
             mark |-> mark, allowed |-> e.res.allowed, qty |-> e.res.qty,
             reason |-> e.res.reason]
      f == paperFill(e.state, symbol, side, qty, mark, t)
  IN  IF "onTrade" \in riskApi
      THEN Pass(f.state, eng, e.tts, ev, FillRecord(qty, mark, f), "called", FALSE)
      ELSE Pass(f.state, eng, e.tts, ev, FillRecord(qty, mark, f), "threw", TRUE)

\* risk.evaluate, broker.paperFill and risk.onTrade for an order of the loop
execute(st, rc, eng, tts, lossTs, t, symbol, side, qty, mark) ==
  LET e == evaluate(st, rc, tts, lossTs, t, symbol, side, qty, mark)
      ev == [called |-> TRUE, symbol |-> symbol, side |-> side, desiredQty |-> qty,
             mark |-> mark, allowed |-> e.res.allowed, qty |-> e.res.qty,
             reason |-> e.res.reason]
  IN  IF e.res.allowed /\ NSign(e.res.qty) > 0
      THEN LET f == paperFill(e.state, symbol, side, e.res.qty, mark, t)
           IN  IF "onTrade" \in riskApi
               THEN Pass(f.state, eng, e.tts, ev, FillRecord(e.res.qty, mark, f), "called", FALSE)
               ELSE Pass(f.state, eng, e.tts, ev, FillRecord(e.res.qty, mark, f), "threw", TRUE)
      ELSE Pass(e.state, eng, e.tts, ev, NoFill, "none", FALSE)

\* the loop body for one instrument once getMarkPrice has settled
loopBody(st, cfg, rc, eng, tts, lossTs, t, symbol, px) ==
  IF px.kind = "throw" THEN Pass(st, eng, tts, NoDecision, NoFill, "none", TRUE)
  ELSE IF px.kind = "nothing" THEN skip(st, eng, tts)
  ELSE
    LET mark == NInt(px.mark)
        prevMark == ensureMarket(st, symbol).markets[symbol].lastMark
        st1 == [ensureMarket(st, symbol) EXCEPT !.markets[symbol].lastMark = mark]
    IN  IF gated(prevMark, mark)
        THEN skip(st1, eng, tts)
        ELSE
          LET signal == onPrice(cfg, eng, mark, t)
              st2 == setStrategyState(st1, symbol, snapshot(cfg, signal.eng))
              qty == orderQty(cfg, signal.action, st2.markets[symbol].position,
                              baseQtyOf(cfg, mark))
          IN  IF signal.action \in {"buy", "sell"} /\ NSign(qty) > 0
              THEN execute(st2, rc, signal.eng, tts, lossTs, t, symbol,
                           signal.action, qty, mark)
              ELSE Pass(st2, signal.eng, tts, NoDecision, NoFill, "none", FALSE)

\* a tick that has just been called
NewTick == [i |-> 1, seen |-> <<>>]

\* variant: the next tick is armed when a tick begins
tickBeginRearming(b) ==
  [b EXCEPT !.inflight = Append(@, NewTick), !.ticks = @ + 1]

\* the timer fires and tick() is called
tickBegin(b) ==
  [b EXCEPT !.timers = @ - 1, !.inflight = Append(@, NewTick), !.ticks = @ + 1]

\* the sequence without its j-th element
Without(q, j) == SubSeq(q, 1, j - 1) \o SubSeq(q, j + 1, Len(q))

\* variant: the error leaves tick() and no timer is armed
tickCaughtNot(b, j) ==
  [b EXCEPT !.inflight = Without(@, j),
            !.ended = [seen |-> b.inflight[j].seen, tail |-> FALSE, threw |-> TRUE,
                       logged |-> FALSE, saved |-> FALSE]]

\* a step of tick j threw: catch, log.error, setTimeout(tick)
tickCaught(b, j) ==
  [b EXCEPT !.inflight = Without(@, j),
            !.timers = @ + 1,
            !.ended = [seen |-> b.inflight[j].seen, tail |-> FALSE, threw |-> TRUE,
                       logged |-> FALSE, saved |-> FALSE]]

\* tick j goes on to its next instrument and awaits its price
tickOn(b, j, symbol) ==
  [b EXCEPT !.inflight[j] = [i |-> @.i + 1, seen |-> Append(@.seen, symbol)]]

\* tick j is through the universe: periodic status, periodic autosave,
\* setTimeout(tick)
tickDone(b, j, symbol, t) ==
  LET logged == t - b.lastLogTs > LOG_EVERY_MS
      saved == t - b.lastSaveTs > AutosaveMs
  IN  [b EXCEPT !.inflight = Without(@, j),
                !.timers = @ + 1,
                !.lastLogTs = IF logged THEN t ELSE @,
                !.lastSaveTs = IF saved THEN t ELSE @,
                !.ended = [seen |-> Append(b.inflight[j].seen, symbol), tail |-> TRUE,
                           threw |-> FALSE, logged |-> logged, saved |-> saved]]

\* variant: a failed close ends the shutdown handler
closeSettledUncaught(b, ok) ==
  IF ok
  THEN [b EXCEPT !.shut = "exited", !.finalSave = TRUE,
                 !.summary = Universe, !.exitCode = 0]
  ELSE [b EXCEPT !.shut = "exited", !.closeFailed = TRUE, !.exitCode = 1]

\* shutdown after ctx.close() settled, resolved or rejected: store.save(),
\* the summary of every instrument, process.exit(0)
closeSettled(b, ok) ==
  [b EXCEPT !.closeFailed = ~ok, !.shut = "exited",
            !.finalSave = TRUE, !.summary = Universe, !.exitCode = 0]

\* ------------------------------------------------------------ orchestrator specification

MaxBotTicks == 3

NoEnded == [seen |-> <<>>, tail |-> FALSE, threw |-> FALSE, logged |-> FALSE, saved |-> FALSE]

\* runBot has kicked off over the ledger st0 that main() loaded:
\* ensureDayStartEquity, then the first tick() awaiting the first price
BotStarts(st0) ==
  /\ state = ensureDayStartEquity(ensureUniverse(st0, 1), StartNow).state
  /\ now = StartNow
  /\ R \in RiskConfigs
  /\ tradeTimestamps = <<>>
  /\ lastLossTs = 0
  /\ lastEval = NoEval
  /\ lastFill = NoFill
  /\ STRAT_EMA \in BotStratConfigs
  /\ strat = createStrategy(STRAT_EMA, seedOf(FreshState, "SOL-PERP"))
  /\ resumed = [on |-> FALSE, eng |-> strat]
  /\ lastSignal = NoSignal
  /\ strategiesBySymbol =
       [s \in {Universe[i] : i \in 1..Len(Universe)}
          |-> createStrategy(STRAT_EMA, seedOf(ensureUniverse(st0, 1), s))]
  /\ bot = [pc |-> "on", inflight |-> <<NewTick>>, timers |-> 0, ticks |-> 1,
            lastLogTs |-> 0, lastSaveTs |-> 0, ended |-> NoEnded, hook |-> "none",
            shut |-> "none", closeFailed |-> FALSE,
            fetched |-> [kind |-> "none", mark |-> 0],
            signalled |-> [midTick |-> FALSE, afterError |-> FALSE],
            finalSave |-> FALSE, summary |-> <<>>, exitCode |-> -1]
  /\ IdleFile

\* the first run, over a fresh ledger
InitBot == BotStarts(FreshState)

\* the timer set by the last tick fires, TICK_MS after it was set
TickStart ==
  /\ bot.shut # "exited"
  /\ bot.timers > 0
  /\ bot.ticks < MaxBotTicks
  /\ bot' = tickBegin(bot)
  /\ now' = now + TickMs
  /\ UNCHANGED <<state, riskVars, stratVars, lastFill, strategiesBySymbol, fileVars>>

\* getMarkPrice of tick j settles with px, at any point of the run (timers
\* that are armed may fire before it does): the loop body runs for the
\* instrument and the tick goes on to its next await, or to its end
Fetched(j, px) ==
  /\ bot.shut # "exited"
  /\ j \in 1..Len(bot.inflight)
  /\ \E symbol \in {Universe[bot.inflight[j].i]} :
     \E r \in {loopBody(state, STRAT_EMA, R, strategiesBySymbol[symbol],
                        tradeTimestamps, lastLossTs, now, symbol, px)} :
     \E b \in {[bot EXCEPT !.hook = IF r.fill.filled THEN r.hook ELSE @,
                             !.fetched = px]} :
       /\ strategiesBySymbol' = [strategiesBySymbol EXCEPT ![symbol] = r.eng]
       /\ tradeTimestamps' = r.tts
       /\ lastEval' = IF r.eval.called
                      THEN [n |-> 1 - lastEval.n, symbol |-> r.eval.symbol,
                            side |-> r.eval.side, desiredQty |-> r.eval.desiredQty,
                            mark |-> r.eval.mark, allowed |-> r.eval.allowed,
                            qty |-> r.eval.qty, reason |-> r.eval.reason]
                      ELSE lastEval
       /\ lastFill' = IF r.fill.filled THEN r.fill ELSE lastFill
       /\ IF r.threw
          THEN /\ bot' = tickCaught(b, j)
               /\ state' = r.state
          ELSE IF bot.inflight[j].i < Len(Universe)
          THEN /\ bot' = tickOn(b, j, symbol)
               /\ state' = r.state
          ELSE /\ bot' = tickDone(b, j, symbol, now)
               /\ state' = IF now - bot.lastLogTs > LOG_EVERY_MS
                           THEN ensureUniverse(r.state, 1) ELSE r.state
  /\ UNCHANGED <<now, R, lastLossTs, stratVars, fileVars>>

\* SIGINT or SIGTERM: shutdown() is called and awaits ctx.close(); a signal
\* that comes while a shutdown is awaiting adds a second handler that awaits
\* the same way, and the first to settle exits
Interrupt ==
  /\ bot.shut = "none"
  /\ bot' = [bot EXCEPT !.shut = "closing",
                        !.signalled = [midTick |-> bot.inflight # <<>>,
                                       afterError |-> bot.ended.threw]]
  /\ UNCHANGED <<state, now, riskVars, stratVars, lastFill, strategiesBySymbol, fileVars>>

\* ctx.close() of a shutdown settles and the shutdown runs to process.exit
Closed(ok) ==
  /\ bot.shut = "closing"
  /\ bot' = closeSettled(bot, ok)
  /\ state' = IF bot'.finalSave THEN ensureUniverse(state, 1) ELSE state
  /\ UNCHANGED <<now, riskVars, stratVars, lastFill, strategiesBySymbol, fileVars>>

NextBot ==
  \/ TickStart
  \/ \E j \in 1..MaxBotTicks, px \in FetchOutcomes : Fetched(j, px)
  \/ Interrupt
  \/ \E ok \in BOOLEAN : Closed(ok)

SpecBot == InitBot /\ [][NextBot]_vars

\* the event loop runs every callback that is due: timers fire, pending
\* price requests and close calls settle
SpecBotFair ==
  /\ SpecBot
  /\ WF_vars(TickStart)
  /\ WF_vars(\E j \in 1..MaxBotTicks, px \in FetchOutcomes : Fetched(j, px))
  /\ WF_vars(\E ok \in BOOLEAN : Closed(ok))

\* the ledger an earlier run of the same day left in the state file: it
\* cached SOL-PERP at 110 and bought LossQty, cached 100 and sold them, and
\* stored the snapshot of a strategy fed the two marks
LossQty == 20
LossSymbol == Universe[1]
LedgerAtKickOff == ensureDayStartEquity(ensureUniverse(FreshState, 1), StartNow).state
EngineFed110(cfg) ==
  onPrice(cfg, createStrategy(cfg, seedOf(LedgerAtKickOff, LossSymbol)),
          NInt(110), StartNow).eng
EngineFed100(cfg) == onPrice(cfg, EngineFed110(cfg), NInt(100), StartNow).eng
LedgerBought(cfg) ==
  paperFill(setStrategyState([LedgerAtKickOff EXCEPT !.markets[LossSymbol].lastMark = NInt(110)],
                             LossSymbol, snapshot(cfg, EngineFed110(cfg))),
            LossSymbol, "buy", NInt(LossQty), NInt(110), StartNow).state
LosingLedger(cfg) ==
  paperFill(setStrategyState([LedgerBought(cfg) EXCEPT !.markets[LossSymbol].lastMark = NInt(100)],
                             LossSymbol, snapshot(cfg, EngineFed100(cfg))),
            LossSymbol, "sell", NInt(LossQty), NInt(100), StartNow).state

\* a run over a fresh ledger, or a restart over the losing one
InitRestart ==
  \/ BotStarts(FreshState)
  \/ \E cfg \in BotStratConfigs : BotStarts(LosingLedger(cfg))

\* the loop alone
NextRestart ==
  \/ TickStart
  \/ \E j \in 1..MaxBotTicks, px \in FetchOutcomes : Fetched(j, px)

SpecRestart == InitRestart /\ [][NextRestart]_vars

\* marks a fraction of a basis point apart, and one a hundred away
GateMarks == {100000, 100001, 101000}
GateOutcomes ==
  {[kind |-> "mark", mark |-> m] : m \in GateMarks} \cup {[kind |-> "nothing", mark |-> 0]}

\* the loop alone, on a feed whose marks move by less than the gate's minimum
NextGate ==
  \/ TickStart
  \/ \E j \in 1..MaxBotTicks, px \in GateOutcomes : Fetched(j, px)

SpecGate == InitBot /\ [][NextGate]_vars

\* ------------------------------------------------------------ state file

\* the members of the markets object, in the order of the universe
RECURSIVE members(_, _)
members(markets, i) ==
  IF i > Len(Universe) THEN <<>>
  ELSE IF Universe[i] \in DOMAIN markets
  THEN <<[key |-> Universe[i], value |-> markets[Universe[i]]]>> \o members(markets, i + 1)
  ELSE members(markets, i + 1)

\* JSON.stringify(state, null, 2)
stringify(st) ==
  [meta |-> st.meta, deposit |-> st.deposit, cash |-> st.cash,
   markets |-> members(st.markets, 1)]

\* the object a sequence of members stands for
RECURSIVE object(_)
object(pairs) ==
  IF pairs = <<>> THEN <<>>
  ELSE (Head(pairs).key :> Head(pairs).value) @@ object(Tail(pairs))

\* JSON.parse(txt)
parse(text) ==
  [meta |-> text.meta, deposit |-> text.deposit, cash |-> text.cash,
   markets |-> object(text.markets)]

\* how fs.writeFileSync ends: it returns; it throws before the file is opened;
\* it throws after the file was truncated; the process dies inside it
WriteOutcomes == {"ok", "refused", "torn", "killed"}
WriteFails == {"refused", "torn"}

\* variant: a write that is refused still empties the file
writeFileSyncEmptying(file, text, w) ==
  IF w = "ok" THEN [status |-> "whole", text |-> text]
  ELSE [status |-> "torn", text |-> <<>>]

\* fs.writeFileSync(cfg.STATE_FILE, text) ending as w
writeFileSync(file, text, w) ==
  IF w = "ok" THEN [status |-> "whole", text |-> text]
  ELSE IF w = "refused" THEN file
  ELSE [status |-> "torn", text |-> <<>>]

\* variant: the error of the write leaves save()
saveUncaught(file, st, w) ==
  [disk |-> writeFileSync(file, stringify(st), w),
   warned |-> FALSE, threw |-> w \in WriteFails, up |-> w # "killed"]

\* save(state): the file after it, whether it warned, whether it threw, and
\* whether the process is still there
save(file, st, w) ==
  [disk |-> writeFileSync(file, stringify(st), w),
   warned |-> w \in WriteFails, threw |-> FALSE, up |-> w # "killed"]

\* variant: the state file is read whatever RESET_STATE says
loadAnyway(file, reset) ==
  IF file.status = "whole" THEN [persisted |-> TRUE, state |-> parse(file.text)]
  ELSE [persisted |-> FALSE, state |-> FreshState]

\* load(): the parsed state file, or null (here: not persisted) on RESET_STATE,
\* when the file does not exist, and when reading or parsing it throws
load(file, reset) ==
  IF reset THEN [persisted |-> FALSE, state |-> FreshState]
  ELSE IF file.status = "whole" THEN [persisted |-> TRUE, state |-> parse(file.text)]
  ELSE [persisted |-> FALSE, state |-> FreshState]

\* createStore: const state = persisted || { fresh defaults }
createStore(file, reset) ==
  LET persisted == load(file, reset)
  IN  IF persisted.persisted THEN persisted.state ELSE FreshState

\* ------------------------------------------------------------ state file specification

MaxStoreFills == 1
MaxLoads == 1
StoreQty == 1
\* the mark of the fills, and the mark cached after them
StoreMark == 100
StoreNextMark == 110

\* the write of the last step, if it made one
NoWrite == [kind |-> "none", outcome |-> "none", warned |-> FALSE, threw |-> FALSE]

\* the store after a write of the state mem, of the given kind
Written(st, kind, w, r, mem) ==
  [st EXCEPT !.up = r.up,
             \* kept: the state of the last write that succeeded; cut: a write
             \* after it ended with the file truncated
             !.write = [kind |-> kind, outcome |-> w,
                        warned |-> r.warned, threw |-> r.threw],
             !.kept = IF w = "ok" THEN mem ELSE @,
             !.everKept = @ \/ w = "ok",
             !.cut = IF w = "ok" THEN FALSE ELSE @ \/ w \in {"torn", "killed"}]

\* the first start of the process, without a state file
InitStore ==
  /\ state = createStore(NoFile, FALSE)
  /\ now = StartNow
  /\ R = NoRisk
  /\ tradeTimestamps = <<>>
  /\ lastLossTs = 0
  /\ lastEval = NoEval
  /\ IdleStrategy
  /\ lastFill = NoFill /\ bot = NoBot /\ strategiesBySymbol = <<>>
  /\ disk = NoFile
  /\ store = [up |-> TRUE, loads |-> 0, fills |-> 0, reset |-> FALSE,
              loaded |-> FALSE, write |-> NoWrite, kept |-> FreshState,
              everKept |-> FALSE, cut |-> FALSE]

\* broker.paperFill: the ledger is updated, the trade recorded and the state saved
StoreFill(symbol, side, m, w) ==
  /\ store.up /\ store.fills < MaxStoreFills
  /\ \E f \in {paperFill(state, symbol, side, NInt(StoreQty), NInt(m), now)} :
     \E r \in {save(disk, f.state, w)} :
       /\ state' = f.state
       /\ lastFill' = FillRecord(NInt(StoreQty), NInt(m), f)
       /\ disk' = r.disk
       /\ store' = [Written(store, "fill", w, r, f.state) EXCEPT !.fills = @ + 1]
  /\ UNCHANGED <<now, riskVars, stratVars, bot, strategiesBySymbol>>

\* store.save() of the autosave and of the shutdown
StoreSave(w) ==
  /\ store.up
  /\ \E r \in {save(disk, state, w)} :
       /\ disk' = r.disk
       /\ store' = Written(store, "save", w, r, state)
  /\ UNCHANGED <<state, now, riskVars, stratVars, lastFill, bot, strategiesBySymbol>>

\* risk.ensureDayStartEquity() on a ledger without today's anchor
StoreDayStart(w) ==
  /\ store.up
  /\ \E e \in {ensureDayStartEquity(state, now)} :
       /\ e.saved
       /\ \E r \in {save(disk, e.state, w)} :
            /\ state' = e.state
            /\ disk' = r.disk
            /\ store' = Written(store, "dayStart", w, r, e.state)
  /\ UNCHANGED <<now, riskVars, stratVars, lastFill, bot, strategiesBySymbol>>

\* the runner caches a mark: the state in memory moves on, the file does not
StoreCacheMark(symbol, m) ==
  /\ store.up
  /\ state' = [ensureMarket(state, symbol) EXCEPT !.markets[symbol].lastMark = NInt(m)]
  /\ store' = [store EXCEPT !.write = NoWrite]
  /\ UNCHANGED <<now, riskVars, stratVars, lastFill, bot, strategiesBySymbol, disk>>

\* the process dies between two operations
Crash ==
  /\ store.up
  /\ store' = [store EXCEPT !.up = FALSE, !.write = NoWrite]
  /\ UNCHANGED <<state, now, riskVars, stratVars, lastFill, bot, strategiesBySymbol, disk>>

\* the process starts again: createStore, with or without RESET_STATE
Start(reset) ==
  /\ ~store.up /\ store.loads < MaxLoads
  /\ state' = createStore(disk, reset)
  /\ store' = [store EXCEPT !.up = TRUE, !.loads = @ + 1, !.reset = reset,
                            !.write = NoWrite,
                            !.loaded = load(disk, reset).persisted]
  /\ UNCHANGED <<now, riskVars, stratVars, lastFill, bot, strategiesBySymbol, disk>>

NextStore ==
  \/ \E symbol \in Symbols, side \in Sides, w \in WriteOutcomes :
       StoreFill(symbol, side, StoreMark, w)
  \/ \E w \in WriteOutcomes : StoreSave(w)
  \/ \E w \in WriteOutcomes : StoreDayStart(w)
  \/ StoreCacheMark(Universe[1], StoreNextMark)
  \/ Crash
  \/ \E reset \in BOOLEAN : Start(reset)

SpecStore == InitStore /\ [][NextStore]_vars


\* ------------------------------------------------------------ state file claims

\* the step wrote the state file, or tried to
WriteStep == store'.write.kind # "none"

\* the process started: createStore ran
StartStep == ~store.up /\ store'.up

\* the step appended one trade to one book and none to the others
OneTradeAppended ==
  \E symbol \in DOMAIN state'.markets :
    /\ FillStep(symbol)
    /\ \A other \in DOMAIN state'.markets \ {symbol} :
         state'.markets[other].trades = bookOf(state, other).trades

\* every trade log of st is the beginning of the same book's log in after
LogsKept(st, after) ==
  \A symbol \in DOMAIN st.markets :
    /\ symbol \in DOMAIN after.markets
    /\ Len(after.markets[symbol].trades) >= Len(st.markets[symbol].trades)
    /\ SubSeq(after.markets[symbol].trades, 1, Len(st.markets[symbol].trades))
         = st.markets[symbol].trades

\* a fill appends one trade and writes the state file in the same step; a
\* write that succeeds leaves the file holding the state after the fill
FillPersisted ==
  (WriteStep /\ store'.write.kind = "fill")
    => /\ OneTradeAppended
       /\ store'.write.outcome = "ok"
            => /\ disk'.status = "whole"
               /\ parse(disk'.text) = state'

C32_LoadAtStartup ==
  [][StartStep
       => IF ~store'.reset /\ disk.status = "whole"
          THEN /\ store.everKept /\ store'.loaded
               /\ state' = store.kept
          ELSE /\ ~store'.loaded
               /\ state'.cash = NInt(InitialDeposit)
               /\ state'.deposit = NInt(InitialDeposit)
               /\ state'.meta.dayStartDate = 0
               /\ DOMAIN state'.markets = {}]_vars

\* C32 witness: the start read back a ledger with a day-start anchor, a book
\* with a trade and a cached mark
C32_Witness ==
  /\ store.up /\ store.loads = 1 /\ store.loaded
  /\ state.meta.dayStartDate # 0
  /\ \E symbol \in DOMAIN state.markets :
       /\ Len(state.markets[symbol].trades) = 1
       /\ ~IsNull(state.markets[symbol].lastMark)
  /\ state.cash # state.deposit

\* the start was asked to reset and left a readable state file aside
C32_WitnessReset ==
  /\ store.up /\ store.loads = 1 /\ store.reset /\ ~store.loaded
  /\ disk.status = "whole" /\ nTrades(parse(disk.text)) = 1
  /\ state = FreshState

\* the start found a file it could not read
C32_WitnessUnreadable ==
  /\ store.up /\ store.loads = 1 /\ ~store.reset /\ ~store.loaded
  /\ disk.status = "torn" /\ store.everKept
  /\ state = FreshState

\* C33: a write of the state file that fails (on a fill, an autosave or
\* shutdown save, a day-start capture) is a warning: save() returns, the
\* process goes on, the state in memory is what the operation made it; and a
\* write that succeeds leaves the file holding the state then in memory
C33_FailedWriteIsWarning ==
  [][WriteStep
       => /\ store'.write.outcome \in WriteFails
               => /\ store'.write.warned /\ ~store'.write.threw /\ store'.up
                  /\ store'.write.kind = "save" => state' = state
                  /\ store'.write.kind = "fill"
                       => OneTradeAppended /\ lastFill'.filled
                  /\ store'.write.kind = "dayStart"
                       => /\ state'.meta.dayStartDate = today(now)
                          /\ state'.markets = state.markets /\ state'.cash = state.cash
          /\ store'.write.outcome = "ok"
               => /\ ~store'.write.warned /\ ~store'.write.threw
                  /\ disk'.status = "whole" /\ parse(disk'.text) = state']_vars

\* C33 witness: the write of a fill failed after truncating the file; the
\* trade is in memory and the process runs
C33_Witness ==
  /\ store.up /\ store.write.kind = "fill" /\ store.write.outcome = "torn"
  /\ store.write.warned /\ ~store.write.threw
  /\ nTrades(state) = 1 /\ lastFill.filled
  /\ disk.status = "torn"

\* a later save wrote the state in memory, the trade included
C33_WitnessNextSave ==
  /\ store.up /\ store.write.kind = "save" /\ store.write.outcome = "ok"
  /\ nTrades(state) = 1 /\ store.loads = 0
  /\ disk.status = "whole" /\ parse(disk.text) = state
  /\ store.kept = state

\* ------------------------------------------------------------ orchestrator claims

\* a tick begins
TickBeginStep == bot'.ticks = bot.ticks + 1

\* a tick ends in its catch block
TickThrewStep == Len(bot'.inflight) < Len(bot.inflight) /\ bot'.ended.threw

\* the broker recorded a fill
FillInTick == nTrades(state') > nTrades(state)

C12_FailedTickRescheduled ==
  /\ [][TickThrewStep => bot'.timers = bot.timers + 1 /\ bot'.shut = bot.shut]_vars
  /\ \A k \in 1..(MaxBotTicks - 1) :
       (bot.pc = "on" /\ bot.ticks = k) ~> (bot.ticks > k \/ bot.shut = "exited")

\* C12 witness: a tick is running after a tick in which the call after a fill
\* threw
C12_Witness ==
  /\ bot.pc = "on" /\ bot.inflight # <<>> /\ bot.shut = "none"
  /\ bot.ended.threw /\ bot.hook = "threw" /\ lastFill.filled

\* C13: the process exits only with code 0 and after the final save and the
\* summary of every instrument, and every shutdown that was started exits
C13_ShutdownCompletes ==
  /\ []((bot.pc = "on" /\ bot.shut = "exited")
          => bot.finalSave /\ bot.summary = Universe /\ bot.exitCode = 0)
  /\ (bot.pc = "on" /\ bot.shut = "closing") ~> (bot.shut = "exited")

\* C13 witness: the signal came in the middle of a tick that followed a failed
\* one, ctx.close() failed, and the process exited after save and summary
C13_Witness ==
  /\ bot.pc = "on" /\ bot.shut = "exited" /\ bot.closeFailed
  /\ bot.signalled.midTick /\ bot.signalled.afterError
  /\ bot.finalSave /\ bot.summary = Universe /\ bot.exitCode = 0

\* the signal came between two ticks
C13_WitnessIdle ==
  /\ bot.pc = "on" /\ bot.shut = "exited" /\ ~bot.signalled.midTick
  /\ bot.finalSave /\ bot.exitCode = 0

\* C14: no step of the loop takes an instrument's position from one sign to
\* the other, and an order against an open position asks for at most the
\* position's magnitude
C14_NoFlipInLoop ==
  [][/\ \A s \in DOMAIN state.markets :
          NSign(state.markets[s].position) * NSign(state'.markets[s].position) >= 0
     /\ (EvalStep /\ ReducingOrder(EvalPos, lastEval'.side))
          => /\ NLe(lastEval'.desiredQty, NAbs(EvalPos))
             /\ NLe(lastEval'.qty, NAbs(EvalPos))]_vars

\* C14 witness: a long was closed by a sell cut to the position's size, the
\* base quantity at the mark being larger
C14_Witness ==
  /\ bot.pc = "on"
  /\ lastEval.reason = "exit" /\ lastEval.side = "sell" /\ lastFill.filled
  /\ NEq(lastFill.qty, lastEval.desiredQty)
  /\ NLt(lastEval.desiredQty, baseQtyOf(STRAT_EMA, lastEval.mark))
  /\ NSign(state.markets[lastEval.symbol].position) = 0
  /\ Len(state.markets[lastEval.symbol].trades) > 1

\* C16: a fill of the loop is followed in its tick, without error, by the call
\* of the risk manager's post-fill hook, and a fill that realizes a loss
\* starts the loss cooldown
C16_PostFillHookCalled ==
  [][FillInTick
       => /\ bot'.hook = "called" /\ ~TickThrewStep
          /\ NLt(rpnlTotal(state'), rpnlTotal(state)) => lastLossTs' = now]_vars

\* C26: with shorts disabled no engine of the loop is ever in the short
\* state, and no instrument's position of the ledger the loop started fresh is
\* ever negative
C26_LongOnlyNeverShort ==
  (bot.pc = "on" /\ STRAT_EMA.longOnly)
    => /\ \A s \in DOMAIN strategiesBySymbol :
            strategiesBySymbol[s].lastState # "short"
       /\ \A s \in DOMAIN state.markets :
            NSign(state.markets[s].position) >= 0

\* C26 witness: with shorts disabled a long was opened and sold back to flat,
\* the engine that asked for the sell being flat again
C26_Witness ==
  /\ bot.pc = "on" /\ STRAT_EMA.longOnly
  /\ \E s \in DOMAIN state.markets :
       /\ Len(state.markets[s].trades) > 1
       /\ state.markets[s].trades[Len(state.markets[s].trades)].side = "sell"
       /\ NSign(state.markets[s].position) = 0
       /\ strategiesBySymbol[s].lastState = "flat"
       /\ strategiesBySymbol[s].lastExitTs > 0

\* C27: from the start of the shutdown sequence to the exit of the process,
\* the wait for the feed connection to close included, no tick begins and no
\* fill is applied to the ledger
C27_ShutdownStopsLoop ==
  [][bot.shut = "closing" => ~TickBeginStep /\ ~FillInTick]_vars

\* getMarkPrice of the tick in progress settled
FetchStep == bot.inflight # <<>> /\ bot'.inflight # bot.inflight /\ ~TickBeginStep

\* the instrument the tick in progress is awaiting the price of
FetchSymbol == Universe[bot.inflight[1].i]

\* the tick in progress goes on after the instrument it was at: to the next
\* one, or past the last one to its end
TickGoesOn ==
  IF bot.inflight[1].i < Len(Universe)
  THEN bot'.inflight = <<[i |-> bot.inflight[1].i + 1,
                          seen |-> Append(bot.inflight[1].seen, FetchSymbol)]>>
  ELSE /\ bot'.inflight = <<>> /\ ~bot'.ended.threw /\ bot'.ended.tail
       /\ bot'.ended.seen = Append(bot.inflight[1].seen, FetchSymbol)

\* no order of the step: the risk manager was not asked, nothing was filled
NoOrderStep ==
  /\ lastEval' = lastEval /\ tradeTimestamps' = tradeTimestamps
  /\ lastFill' = lastFill /\ ~FillInTick

\* C28: a fetch that gives no data leaves the instrument's book (its cached
\* mark and stored snapshot included) and its engine as they were, submits no
\* order, and the tick goes on to the instruments after it
C28_NoDataSkipsInstrument ==
  [][(FetchStep /\ bot'.fetched.kind = "nothing")
       => /\ state'.markets[FetchSymbol] = state.markets[FetchSymbol]
          /\ getStrategyState(state', FetchSymbol) = getStrategyState(state, FetchSymbol)
          /\ strategiesBySymbol'[FetchSymbol] = strategiesBySymbol[FetchSymbol]
          /\ NoOrderStep
          /\ TickGoesOn]_vars

\* C28 witness: the first tick had no data for SOL-PERP, whose book has no
\* cached mark, and went on to BTC-PERP, whose mark it cached, and to its end
C28_Witness ==
  /\ bot.pc = "on" /\ bot.ticks = 1 /\ bot.inflight = <<>>
  /\ bot.ended.seen = Universe /\ ~bot.ended.threw
  /\ bot.fetched.kind = "mark"
  /\ IsNull(state.markets["SOL-PERP"].lastMark)
  /\ ~IsNull(state.markets["BTC-PERP"].lastMark)

\* the move from the cached mark to the new one, in bps, is below the minimum
SmallMove(prev, mark) ==
  /\ ~IsNull(prev)
  /\ NLt(NMul(NAbs(NSub(mark, prev)), NInt(BpsBase)),
         NMul(NInt(MIN_MARK_MOVE_BPS), NAbs(prev)))

\* the engine of the instrument was fed the mark and its snapshot was stored
EngineFed(symbol, mark) ==
  /\ strategiesBySymbol'[symbol].ticks = strategiesBySymbol[symbol].ticks + 1
  /\ NEq(strategiesBySymbol'[symbol].lastMark, mark)
  /\ getStrategyState(state', symbol) = snapshot(STRAT_EMA, strategiesBySymbol'[symbol])

\* C29: a fetched mark always replaces the cached one; when it moved by less
\* than the minimum the engine is not fed, the stored snapshot is not
\* rewritten and no order is submitted; an instrument without a cached mark
\* is never held back
C29_MoveGate ==
  [][(FetchStep /\ bot'.fetched.kind = "mark")
       => /\ NEq(state'.markets[FetchSymbol].lastMark, NInt(bot'.fetched.mark))
          /\ SmallMove(state.markets[FetchSymbol].lastMark, NInt(bot'.fetched.mark))
               => /\ strategiesBySymbol'[FetchSymbol] = strategiesBySymbol[FetchSymbol]
                  /\ getStrategyState(state', FetchSymbol)
                       = getStrategyState(state, FetchSymbol)
                  /\ NoOrderStep
          /\ IsNull(state.markets[FetchSymbol].lastMark)
               => EngineFed(FetchSymbol, NInt(bot'.fetched.mark))]_vars

\* C29 witness: BTC-PERP's second mark, the last fetch of the second tick, is
\* cached though it moved a tenth of a basis point, and its engine and stored
\* snapshot still have the first mark alone
C29_Witness ==
  /\ bot.pc = "on" /\ bot.ticks = 2 /\ bot.inflight = <<>>
  /\ bot.ended.seen = Universe /\ bot.fetched.kind = "mark"
  /\ NEq(state.markets["BTC-PERP"].lastMark, NInt(bot.fetched.mark))
  /\ strategiesBySymbol["BTC-PERP"].ticks = 1
  /\ ~IsNull(strategiesBySymbol["BTC-PERP"].lastMark)
  /\ ~NEq(strategiesBySymbol["BTC-PERP"].lastMark, state.markets["BTC-PERP"].lastMark)
  /\ getStrategyState(state, "BTC-PERP").ticks = 1

\* the first mark of SOL-PERP, in the first tick, was fed to its engine and
\* the engine's snapshot stored
C29_WitnessFirst ==
  /\ bot.pc = "on" /\ bot.ticks = 1 /\ bot.fetched.kind = "mark"
  /\ bot.inflight # <<>> /\ bot.inflight[1].i = 2
  /\ strategiesBySymbol["SOL-PERP"].ticks = 1
  /\ NEq(strategiesBySymbol["SOL-PERP"].lastMark, NInt(bot.fetched.mark))
  /\ getStrategyState(state, "SOL-PERP").ticks = 1

\* the risk manager turned the order down
RejectStep ==
  /\ EvalStep /\ ~lastEval'.allowed
  /\ lastEval'.reason \in {"throttle", "cooldown_after_loss", "daily_loss_limit"}

\* book b in the ledger's terms: position, entry price, realized PnL, fees, trades
LedgerOf(b) == <<b.position, b.entryPrice, b.realizedPnL, b.feesPaid, b.trades>>

\* C30: an order the risk manager rejects does not reach the broker: cash and
\* every book's position, entry price, realized PnL, fees and trade log are as
\* before, and the trade-rate window has no new entry
C30_RejectedOrderDropped ==
  [][RejectStep
       => /\ state'.cash = state.cash
          /\ DOMAIN state'.markets = DOMAIN state.markets
          /\ \A s \in DOMAIN state.markets :
               LedgerOf(state'.markets[s]) = LedgerOf(state.markets[s])
          /\ lastFill' = lastFill
          /\ Len(tradeTimestamps') <= Len(tradeTimestamps)
          /\ tradeTimestamps' = SubSeq(tradeTimestamps,
                                       Len(tradeTimestamps) - Len(tradeTimestamps') + 1,
                                       Len(tradeTimestamps))]_vars

\* C30 witness: an entry was turned down by the throttle after a fill of the
\* same minute, whose trade is the only one of the ledger
C30_Witness ==
  /\ bot.pc = "on"
  /\ lastEval.reason = "throttle" /\ ~lastEval.allowed
  /\ Len(tradeTimestamps) = 1
  /\ nTrades(state) = 1
  /\ Len(state.markets[lastEval.symbol].trades) = 0

\* an entry was turned down by the daily loss limit after the restart
C30_WitnessDailyLoss ==
  /\ bot.pc = "on"
  /\ lastEval.reason = "daily_loss_limit" /\ ~lastEval.allowed
  /\ tradeTimestamps = <<>>
  /\ nTrades(state) = 2
  /\ NSign(state.markets[lastEval.symbol].position) = 0

\* the engine's regime and the book's position say the same thing
RegimeAgrees(eng, pos) ==
  /\ eng.lastState = "flat" <=> NSign(pos) = 0
  /\ eng.lastState = "long" => NSign(pos) > 0
  /\ eng.lastState = "short" => NSign(pos) < 0

\* C34 as stated: after each instrument's step of a tick the engine of the
\* instrument is flat exactly when its position is zero, long only when the
\* position is positive, short only when it is negative
C34_RegimeAgreesWithLedger ==
  [][FetchStep
       => RegimeAgrees(strategiesBySymbol'[FetchSymbol],
                       bookOf(state', FetchSymbol).position)]_vars

\* the engine of the instrument left a long or short regime: it signalled an exit
ExitSignalStep(symbol) ==
  /\ strategiesBySymbol[symbol].lastState \in {"long", "short"}
  /\ strategiesBySymbol'[symbol].lastState = "flat"

\* C35 as stated: when the engine signals an exit for an instrument that
\* holds a position, the step fills an order that brings the position to zero
C35_ExitClosesPosition ==
  [][(FetchStep /\ ExitSignalStep(FetchSymbol)
        /\ NSign(bookOf(state, FetchSymbol).position) # 0)
       => /\ FillInTick
          /\ NSign(bookOf(state', FetchSymbol).position) = 0]_vars

\* ------------------------------------------------------------ risk claims over the system

\* the evaluation ev approved an order that is not an exit
ApprovedOpening(ev) == ev.allowed /\ ev.reason # "exit"

\* C36 as stated, for two evaluations in a row at the instant the run starts:
\* when both approve an opening order, in full or at a ceiling-reduced
\* quantity, the cap on trades per minute is at least two
C36_OpeningsWithinCap ==
  [][(EvalStep /\ now = StartNow
        /\ ApprovedOpening(lastEval) /\ ApprovedOpening(lastEval'))
       => R.MAX_TRADES_PER_MIN >= 2]_vars

\* the position after the order's permitted quantity is filled
PositionAfter(pos, side, qty) == IF side = "buy" THEN NAdd(pos, qty) ELSE NSub(pos, qty)

\* C37 as stated: with a ceiling configured, an approved order leaves the
\* position no larger in magnitude than it was, or leaves its notional at the
\* mark at or under the ceiling; orders past an open position included
C37_ApprovedWithinCeiling ==
  [][(EvalStep /\ R.MAX_POSITION_USD_PER_MARKET > 0 /\ lastEval'.allowed)
       => \E after \in {PositionAfter(EvalPos, lastEval'.side, lastEval'.qty)} :
            \/ NLe(NAbs(after), NAbs(EvalPos))
            \/ NLe(NMul(NAbs(after), lastEval'.mark),
                   NInt(R.MAX_POSITION_USD_PER_MARKET))]_vars

\* ------------------------------------------------------------ ledger reconstruction

\* the sum of the signed notionals of a trade log
RECURSIVE notionalOf(_)
notionalOf(trades) ==
  IF trades = <<>> THEN NZero ELSE NAdd(Head(trades).notional, notionalOf(Tail(trades)))

\* the net signed quantity of a trade log: buys add, sells subtract
RECURSIVE netQtyOf(_)
netQtyOf(trades) ==
  IF trades = <<>> THEN NZero
  ELSE NAdd(IF Head(trades).side = "buy" THEN Head(trades).qty ELSE NNeg(Head(trades).qty),
            netQtyOf(Tail(trades)))

\* C38: in every state reached from a fresh ledger, cash is the deposit plus
\* the signed notionals of all trades of all books minus the fees paid, and
\* each book's position is the net signed quantity of its trade log
C38_LedgerFromTrades ==
  /\ NEq(state.cash,
         NSub(NAdd(state.deposit,
                   SumNums([s \in DOMAIN state.markets |-> notionalOf(state.markets[s].trades)],
                           DOMAIN state.markets)),
              feesTotal(state)))
  /\ \A s \in DOMAIN state.markets :
       NEq(state.markets[s].position, netQtyOf(state.markets[s].trades))

\* C38 witness: a book with a buy and a sell of different sizes in its log,
\* holding what is left
C38_Witness ==
  \E s \in DOMAIN state.markets :
    /\ Len(state.markets[s].trades) = 2
    /\ state.markets[s].trades[1].side # state.markets[s].trades[2].side
    /\ NSign(state.markets[s].position) # 0
    /\ ~NEq(state.cash, state.deposit)
    /\ NSign(feesTotal(state)) > 0

\* ------------------------------------------------------------ error containment

\* the tick in progress reaches what follows the instrument it was at: the
\* next instrument, or after the last one the status report and autosave check
TickReachesRest ==
  IF bot.inflight[1].i < Len(Universe)
  THEN bot'.inflight # <<>> /\ bot'.inflight[1].i = bot.inflight[1].i + 1
  ELSE bot'.inflight = <<>> /\ bot'.ended.tail

\* C39 as stated: when the price fetch of an instrument throws, or the step of
\* an instrument throws after its order was filled, the tick still reaches the
\* instruments after it and its status report and autosave check
C39_ErrorKeepsTickGoing ==
  [][(FetchStep /\ (bot'.fetched.kind = "throw" \/ FillInTick)) => TickReachesRest]_vars

====
